---- MODULE Spec2Model ----
(***************************************************************************)
(* A model of netket's homogeneous discrete Hilbert spaces                 *)
(* (netket/hilbert/discrete_hilbert.py, netket/hilbert/homogeneous.py) and *)
(* of the sampler state machine (netket/sampler/base.py).                  *)
(*                                                                         *)
(* The index engines of netket/hilbert/index (UnconstrainedHilbertIndex,   *)
(* ConstrainedHilbertIndex) are not among the source files: they are       *)
(* modelled from the specification's section 4.3 and are marked so below.  *)
(***************************************************************************)
EXTENDS Integers, Sequences, FiniteSets, TLC

VARIABLES
    hs,       \* the HomogeneousHilbert object: the fields __init__ assigns
    hidx,     \* its private cache self.__hilbert_index
    builds,   \* how many index engines have been constructed for hs
    last,     \* the last public operation on hs: its input and its outcome
    prev,     \* the operation whose return value was the input of `last`
    dims,     \* a space reduced to what is_indexable reads: is_finite, shape
    answer,   \* what reading is_indexable of `dims` returned
    held,     \* the SamplerState objects the caller holds, by slot
    api,      \* the last call of the sampler's public interface
    calls,    \* the calls of _init_state, _reset, _sample_chain it made
    impl,     \* the concrete sampler: its chains and its batch layout
    cur,      \* the SamplerState the caller of sample/samples holds
    gen,      \* the generator samples(...) returned
    got,      \* the last call on the sampler or advance of the generator
    twin,     \* the SamplerStates of two runs given the same calls
    tgot,     \* the last call the two runs made, and what each returned
    mpi,      \* netket.utils.mpi: n_nodes workers, this one's rank
    smp,      \* the Sampler a call of its constructor made, or its failure
    rd,       \* the last property read of smp, or compute_n_chains call
    pair,     \* two SamplerStates that one sampler drives in turn
    solo,     \* the same two states, each driven without the other
    pgot,     \* the last call on one of the two states
    fac,      \* the operands of a product of spaces: self, other
    prod,     \* self * other, and what reading its n_states gave
    wk        \* the workers of a distributed run: the states init_state gave

hvars == <<hs, hidx, builds, last, prev>>

dvars == <<dims, answer>>

svars == <<held, api, calls>>

gvars == <<impl, cur, gen, got>>

tvars == <<twin, tgot>>

vars == <<hs, hidx, builds, last, prev, dims, answer, held, api, calls,
          impl, cur, gen, got, twin, tgot, mpi, smp, rd, pair, solo, pgot,
          fac, prod, wk>>

pvars == <<pair, solo, pgot>>

mvars == <<fac, prod>>

nvars == <<mpi, smp, rd>>

\* what the operations of each part leave alone
notH == <<dvars, svars, gvars, tvars, mpi, smp, rd, pvars, mvars, wk>>
notD == <<hvars, svars, gvars, tvars, mpi, smp, rd, pvars, mvars, wk>>
notS == <<hvars, dvars, gvars, tvars, mpi, smp, rd, pvars, mvars, wk>>
notG == <<hvars, dvars, svars, tvars, mpi, smp, rd, pvars, mvars, wk>>
notT == <<hvars, dvars, svars, gvars, mpi, smp, rd, pvars, mvars, wk>>
notN == <<hvars, dvars, svars, gvars, tvars, pvars, mvars, wk>>
notP == <<hvars, dvars, svars, gvars, tvars, mpi, rd, mvars, wk>>
notM == <<hvars, dvars, svars, gvars, tvars, nvars, pvars, wk>>
notW == <<hvars, dvars, svars, gvars, tvars, nvars, pvars, mvars>>

(***************************************************************************)
(* Bounds of the model.                                                    *)
(***************************************************************************)
\* spaces have 1..MaxN sites, or BigN sites (N >= 1: a space has sites)
MaxN == 3
\* a number of sites for which two or more local states cannot be indexed
BigN == 31
\* numbers handed to numbers_to_states range over -1..MaxNum
MaxNum == 28

(***************************************************************************)
(* Program constants.                                                      *)
(***************************************************************************)
\* np.iinfo(np.int32).max
max_states == 2147483647
\* np.iinfo(np.intp).max, the local size of a space with infinitely many
\* local states.  2^63-1 is not an integer TLC can hold: the token below
\* stands for it and is only ever compared, never computed with.
IntpMax == -1

(***************************************************************************)
(* Inputs of the constructor.                                              *)
(***************************************************************************)
\* local_states: None, or a list of reals (any list: __init__ checks nothing)
LocalStatesArgs ==
    {[none |-> TRUE, vals |-> <<>>]} \cup
    {[none |-> FALSE, vals |-> v] :
        v \in {<<>>, <<1>>, <<-1, 1>>, <<1, -1>>, <<1, 1>>, <<-1, 0, 1>>}}

\* the values configurations are written with
Vals == {-1, 0, 1}

\* constraint_fn: None, or a predicate on configurations
ConstraintArgs == {"None", "sum_zero", "never"}

RECURSIVE SumSeq(_)
SumSeq(s) == IF s = <<>> THEN 0 ELSE Head(s) + SumSeq(Tail(s))

\* the user's constraint_fn applied to one configuration
ConstraintHolds(cfn, row) ==
    CASE cfn = "sum_zero" -> SumSeq(row) = 0
      [] cfn = "never"    -> FALSE
      [] OTHER            -> TRUE

(***************************************************************************)
(* HomogeneousHilbert.__init__ and the properties that only read fields.   *)
(***************************************************************************)
\* homogeneous.py:73-82
LocalSize(ls) == IF ls.none THEN IntpMax ELSE Len(ls.vals)

\* homogeneous.py:88
HomShape(local_size, N) == [i \in 1..N |-> local_size]

HomogeneousInit(ls, N, cfn) ==
    [is_finite     |-> ~ls.none,
     local_states  |-> ls.vals,
     local_size    |-> LocalSize(ls),
     constraint_fn |-> cfn,
     shape         |-> HomShape(LocalSize(ls), N)]

size(h) == Len(h.shape)

constrained(h) == h.constraint_fn # "None"

(***************************************************************************)
(* _is_indexable: sum(log(shape)) <= log(max_states).  The code compares   *)
(* in log-space so that the product never overflows; the model multiplies *)
(* the dimensions one by one and stops as soon as the product would pass   *)
(* max_states.  (Two distinct integer products near 2^31 differ by more    *)
(* than 4e-10 in log, far above the rounding error of a sum of at most 31  *)
(* non-zero float64 logarithms, so both comparisons agree.)  log(0) is     *)
(* -inf: a shape with a zero is indexable.                                 *)
(***************************************************************************)
RECURSIVE ProdWithin(_, _, _)
\* acc * shape[1] * ... * shape[n] <= cap, for acc <= cap
ProdWithin(shape, acc, cap) ==
    IF shape = <<>> THEN TRUE
    ELSE LET d == Head(shape) IN
         IF d = IntpMax THEN FALSE
         ELSE IF d = 0 THEN TRUE
         ELSE IF acc > cap \div d THEN FALSE
         ELSE ProdWithin(Tail(shape), acc * d, cap)

IsIndexableStrict(shape) == 0 \in {shape[i] : i \in DOMAIN shape}
                            \/ ProdWithin(shape, 1, max_states - 1)

IsIndexableShape(shape) ==
    0 \in {shape[i] : i \in DOMAIN shape} \/ ProdWithin(shape, 1, max_states)

IsIndexableNoFinite(is_finite, shape) == IsIndexableShape(shape)

\* DiscreteHilbert.is_indexable
IsIndexable(is_finite, shape) ==
    IF ~is_finite THEN FALSE ELSE IsIndexableShape(shape)

is_indexable(h) == IsIndexable(h.is_finite, h.shape)

(***************************************************************************)
(* The index engines (netket/hilbert/index), modelled from the             *)
(* specification, section 4.3.  Unconstrained: positional (mixed-radix)    *)
(* encoding over the local states in the order given, the last site the    *)
(* least significant digit.  Constrained: the unconstrained numbers whose  *)
(* configuration satisfies the predicate, kept in increasing order (the    *)
(* table `bare`), built once at construction.  Decoding a number outside   *)
(* [0, n_states) and encoding a configuration that is not one of the       *)
(* space fail with IndexError (section 7).                                 *)
(***************************************************************************)
RECURSIVE Pow(_, _)
Pow(b, e) == IF e = 0 THEN 1 ELSE b * Pow(b, e - 1)

\* position (from 0) of the local state v in the list ls
LocalIndex(ls, v) ==
    (CHOOSE i \in 1..Len(ls) :
        ls[i] = v /\ \A j \in 1..(i - 1) : ls[j] # v) - 1

UnconstrainedDecode(ls, N, n) ==
    [k \in 1..N |-> ls[((n \div Pow(Len(ls), N - k)) % Len(ls)) + 1]]

RECURSIVE EncodeFrom(_, _, _)
\* Horner evaluation of the digits of row, most significant first
EncodeFrom(ls, row, acc) ==
    IF row = <<>> THEN acc
    ELSE EncodeFrom(ls, Tail(row), acc * Len(ls) + LocalIndex(ls, Head(row)))

UnconstrainedEncode(ls, row) == EncodeFrom(ls, row, 0)

InLocalBasis(ls, row) ==
    \A k \in 1..Len(row) : \E i \in 1..Len(ls) : ls[i] = row[k]

\* the unconstrained numbers that pass the predicate, in increasing order
BareNumbers(ls, N, cfn) ==
    SelectSeq([i \in 1..Pow(Len(ls), N) |-> i - 1],
              LAMBDA n : ConstraintHolds(cfn, UnconstrainedDecode(ls, N, n)))

NoIndex ==
    [kind |-> "None", id |-> 0, local_states |-> <<>>, size |-> 0,
     cfn |-> "None", bare |-> <<>>]

UnconstrainedHilbertIndex(ls, N, id) ==
    [kind |-> "Unconstrained", id |-> id, local_states |-> ls, size |-> N,
     cfn |-> "None", bare |-> <<>>]

ConstrainedHilbertIndex(ls, N, cfn, id) ==
    [kind |-> "Constrained", id |-> id, local_states |-> ls, size |-> N,
     cfn |-> cfn, bare |-> BareNumbers(ls, N, cfn)]

Index_n_states(e) ==
    IF e.kind = "Constrained" THEN Len(e.bare)
    ELSE Pow(Len(e.local_states), e.size)

Index_number_to_state(e, n) ==
    IF e.kind = "Constrained"
    THEN UnconstrainedDecode(e.local_states, e.size, e.bare[n + 1])
    ELSE UnconstrainedDecode(e.local_states, e.size, n)

\* position (from 0) of the unconstrained number b in the table
BarePosition(bare, b) == (CHOOSE i \in 1..Len(bare) : bare[i] = b) - 1

Index_valid_state(e, row) ==
    /\ Len(row) = e.size
    /\ InLocalBasis(e.local_states, row)
    /\ e.kind = "Constrained" =>
          \E i \in 1..Len(e.bare) :
              e.bare[i] = UnconstrainedEncode(e.local_states, row)

Index_state_to_number(e, row) ==
    IF e.kind = "Constrained"
    THEN BarePosition(e.bare, UnconstrainedEncode(e.local_states, row))
    ELSE UnconstrainedEncode(e.local_states, row)

\* a variant that takes a negative number to count from the end
Index_numbers_to_states_wrap(e, nums) ==
    IF \E i \in 1..Len(nums) : nums[i] >= Index_n_states(e)
    THEN [err |-> "IndexError", rows |-> <<>>]
    ELSE IF Index_n_states(e) = 0 /\ nums # <<>>
    THEN [err |-> "IndexError", rows |-> <<>>]
    ELSE [err |-> "none",
          rows |-> [i \in 1..Len(nums) |->
                      Index_number_to_state(e, nums[i] % Index_n_states(e))]]

\* the outcome [err, rows] of decoding a batch
Index_numbers_to_states(e, nums) ==
    IF \E i \in 1..Len(nums) : nums[i] < 0 \/ nums[i] >= Index_n_states(e)
    THEN [err |-> "IndexError", rows |-> <<>>]
    ELSE [err |-> "none",
          rows |-> [i \in 1..Len(nums) |-> Index_number_to_state(e, nums[i])]]

\* the outcome [err, nums] of encoding a batch
Index_states_to_numbers(e, rows) ==
    IF \E i \in 1..Len(rows) : ~Index_valid_state(e, rows[i])
    THEN [err |-> "IndexError", nums |-> <<>>]
    ELSE [err |-> "none",
          nums |-> [i \in 1..Len(rows) |-> Index_state_to_number(e, rows[i])]]

\* the full enumeration, in index order
Index_all_states(e) ==
    [i \in 1..Index_n_states(e) |-> Index_number_to_state(e, i - 1)]

(***************************************************************************)
(* The outcome of an operation on the space: the exception raised ("none"  *)
(* when it returns), the value returned (nums, rows, val or flag, by the   *)
(* operation), the state of the cache and the number of engines built      *)
(* after it, the number of calls of the primitive (_numbers_to_states or   *)
(* _states_to_numbers) it made, and the id of the engine it reached        *)
(* (0: none).                                                              *)
(***************************************************************************)
Outcome(err, cache, nb, eng, nums, rows, prim) ==
    [err |-> err, cache |-> cache, builds |-> nb, eng |-> eng,
     nums |-> nums, rows |-> rows, prim |-> prim]

Raise(err, cache, nb, eng, prim) ==
    Outcome(err, cache, nb, eng, <<>>, <<>>, prim)

(***************************************************************************)
(* HomogeneousHilbert._hilbert_index (homogeneous.py:170-192): the engine  *)
(* reached (index), the cache and the number of engines built afterwards,  *)
(* or the exception raised.                                                *)
(***************************************************************************)
NewIndex(h, id) ==
    IF constrained(h)
    THEN ConstrainedHilbertIndex(h.local_states, size(h), h.constraint_fn, id)
    ELSE UnconstrainedHilbertIndex(h.local_states, size(h), id)

\* a variant that forgets to store the engine it builds
HilbertIndexNoCache(h, cache, nb) ==
    IF cache.kind # "None"
    THEN [err |-> "none", cache |-> cache, builds |-> nb, index |-> cache]
    ELSE IF ~is_indexable(h)
    THEN [err |-> "RuntimeError", cache |-> cache, builds |-> nb,
          index |-> NoIndex]
    ELSE [err |-> "none", cache |-> cache, builds |-> nb + 1,
          index |-> NewIndex(h, nb + 1)]

\* a variant that builds the engine without asking is_indexable
HilbertIndexNoCheck(h, cache, nb) ==
    IF cache.kind # "None"
    THEN [err |-> "none", cache |-> cache, builds |-> nb, index |-> cache]
    ELSE [err |-> "none", cache |-> NewIndex(h, nb + 1), builds |-> nb + 1,
          index |-> NewIndex(h, nb + 1)]

HilbertIndex(h, cache, nb) ==
    IF cache.kind # "None"
    THEN [err |-> "none", cache |-> cache, builds |-> nb, index |-> cache]
    ELSE IF ~is_indexable(h)
    THEN [err |-> "RuntimeError", cache |-> cache, builds |-> nb,
          index |-> NoIndex]
    ELSE [err |-> "none", cache |-> NewIndex(h, nb + 1), builds |-> nb + 1,
          index |-> NewIndex(h, nb + 1)]

\* an operation that ends in the exception a failed engine access raised
RaiseOf(a, prim) == Raise(a.err, a.cache, a.builds, a.index.id, prim)

(***************************************************************************)
(* HomogeneousHilbert.n_states (homogeneous.py:113-117); the value is the  *)
(* single element of nums.                                                 *)
(***************************************************************************)
HH_n_states(h, cache, nb) ==
    LET a == HilbertIndex(h, cache, nb) IN
    IF a.err # "none" THEN RaiseOf(a, 0)
    ELSE Outcome("none", a.cache, a.builds, a.index.id,
                 <<Index_n_states(a.index)>>, <<>>, 0)

(***************************************************************************)
(* HomogeneousHilbert._numbers_to_states (homogeneous.py:138-144).         *)
(***************************************************************************)
HH_numbers_to_states(h, cache, nb, nums) ==
    LET a == HilbertIndex(h, cache, nb) IN
    IF a.err # "none" THEN RaiseOf(a, 1)
    ELSE LET r == Index_numbers_to_states(a.index, nums) IN
         Outcome(r.err, a.cache, a.builds, a.index.id, <<>>, r.rows, 1)

(***************************************************************************)
(* HomogeneousHilbert._states_to_numbers (homogeneous.py:146-154): the     *)
(* engine fills `out` in place and `out` is returned.                      *)
(***************************************************************************)
\* a variant that returns `out` without having the engine fill it
HH_states_to_numbers_unfilled(h, cache, nb, rows) ==
    LET a == HilbertIndex(h, cache, nb) IN
    IF a.err # "none" THEN RaiseOf(a, 1)
    ELSE Outcome("none", a.cache, a.builds, a.index.id,
                 [i \in 1..Len(rows) |-> 0], <<>>, 1)

HH_states_to_numbers(h, cache, nb, rows) ==
    LET a == HilbertIndex(h, cache, nb) IN
    IF a.err # "none" THEN RaiseOf(a, 1)
    ELSE LET r == Index_states_to_numbers(a.index, rows) IN
         Outcome(r.err, a.cache, a.builds, a.index.id, r.nums, <<>>, 1)

(***************************************************************************)
(* DiscreteHilbert.numbers_to_states (discrete_hilbert.py:135-164).        *)
(* `scalar`: the input is one number (nums holds it) and one row is        *)
(* returned; otherwise the input is a one-dimensional batch.               *)
(***************************************************************************)
\* a variant that decodes before it checks the range
DH_numbers_to_states_late_check(h, cache, nb, scalar, nums) ==
    LET p == HH_numbers_to_states(h, cache, nb, nums) IN
    IF p.err # "none" THEN p
    ELSE IF \E i \in 1..Len(nums) : nums[i] >= Index_n_states(p.cache)
    THEN Raise("ValueError", p.cache, p.builds, p.eng, 1)
    ELSE p

\* a variant whose range check is off by one
DH_numbers_to_states_off_by_one(h, cache, nb, scalar, nums) ==
    LET ns == HH_n_states(h, cache, nb) IN
    IF ns.err # "none" THEN ns
    ELSE IF \E i \in 1..Len(nums) : nums[i] >= ns.nums[1] - 1
    THEN Raise("ValueError", ns.cache, ns.builds, ns.eng, 0)
    ELSE HH_numbers_to_states(h, ns.cache, ns.builds, nums)

DH_numbers_to_states(h, cache, nb, scalar, nums) ==
    LET ns == HH_n_states(h, cache, nb) IN
    IF ns.err # "none" THEN ns
    ELSE IF \E i \in 1..Len(nums) : nums[i] >= ns.nums[1]
    THEN Raise("ValueError", ns.cache, ns.builds, ns.eng, 0)
    ELSE HH_numbers_to_states(h, ns.cache, ns.builds, nums)

(***************************************************************************)
(* DiscreteHilbert.states_to_numbers (discrete_hilbert.py:166-199).        *)
(* `width` is states.shape[-1]; `scalar`: the input is one configuration   *)
(* (states.ndim == 1) and one number is returned.                          *)
(***************************************************************************)
\* a variant that reaches the engine before it checks the width
DH_states_to_numbers_late_check(h, cache, nb, scalar, width, rows) ==
    LET a == HilbertIndex(h, cache, nb) IN
    IF a.err # "none" THEN RaiseOf(a, 0)
    ELSE IF width # size(h)
    THEN Raise("ValueError", a.cache, a.builds, a.index.id, 0)
    ELSE HH_states_to_numbers(h, a.cache, a.builds, rows)

DH_states_to_numbers(h, cache, nb, scalar, width, rows) ==
    IF width # size(h) THEN Raise("ValueError", cache, nb, 0, 0)
    ELSE HH_states_to_numbers(h, cache, nb, rows)

(***************************************************************************)
(* HomogeneousHilbert.all_states (homogeneous.py:156-168), which overrides *)
(* DiscreteHilbert.all_states (discrete_hilbert.py:211-225).               *)
(***************************************************************************)
HH_all_states(h, cache, nb) ==
    LET a == HilbertIndex(h, cache, nb) IN
    IF a.err # "none" THEN RaiseOf(a, 0)
    ELSE Outcome("none", a.cache, a.builds, a.index.id, <<>>,
                 Index_all_states(a.index), 0)

\* np.arange(0, n)
Arange(n) == [i \in 1..n |-> i - 1]

DH_all_states(h, cache, nb) ==
    LET ns == HH_n_states(h, cache, nb) IN
    IF ns.err # "none" THEN ns
    ELSE DH_numbers_to_states(h, ns.cache, ns.builds, FALSE,
                              Arange(ns.nums[1]))

(***************************************************************************)
(* DiscreteHilbert.states (discrete_hilbert.py:201-209), iterated to its   *)
(* end: range(self.n_states) is evaluated at the first advance, then each  *)
(* number is decoded by numbers_to_states, whose exception, if any, leaves *)
(* the generator.                                                          *)
(***************************************************************************)
DH_states(h, cache, nb) ==
    LET ns == HH_n_states(h, cache, nb) IN
    IF ns.err # "none" THEN ns
    ELSE LET step(i) == DH_numbers_to_states(h, ns.cache, ns.builds, TRUE,
                                             <<i - 1>>)
             failed == {i \in 1..ns.nums[1] : step(i).err # "none"}
         IN  IF failed # {}
             THEN \* an exception of numbers_to_states ends the iteration
                  LET f == CHOOSE i \in failed : \A j \in failed : i <= j
                  IN  Raise(step(f).err, ns.cache, ns.builds, ns.eng,
                            (f - 1) + step(f).prim)
             ELSE Outcome("none", ns.cache, ns.builds, ns.eng, <<>>,
                          [i \in 1..ns.nums[1] |-> step(i).rows[1]],
                          ns.nums[1])

(***************************************************************************)
(* The record kept of an operation: its name, its input (scalar, in_nums,  *)
(* in_width, in_rows), and its outcome: the exception, the value returned  *)
(* (nums, rows or flag), the primitive calls made, the engine reached.     *)
(***************************************************************************)
OpRec(op, scalar, in_nums, in_width, in_rows, o, flag) ==
    [op |-> op, scalar |-> scalar, in_nums |-> in_nums,
     in_width |-> in_width, in_rows |-> in_rows,
     err |-> o.err, nums |-> o.nums, rows |-> o.rows, flag |-> flag,
     prim |-> o.prim, eng |-> o.eng]

NoOp ==
    OpRec("none", FALSE, <<>>, 0, <<>>, Raise("none", NoIndex, 0, 0, 0), FALSE)

PropertyNames == {"shape", "size", "is_finite", "constrained", "is_indexable"}

IndexingOps ==
    {"n_states", "numbers_to_states", "states_to_numbers", "all_states",
     "all_states_base", "states"}

(***************************************************************************)
(* The inputs tried.                                                       *)
(***************************************************************************)
SiteCounts == (1..MaxN) \cup {BigN}

NumberInputs == (-1)..MaxNum

NumberBatches ==
    {<<>>} \cup {<<a>> : a \in NumberInputs}
           \cup {<<a, b>> : a, b \in NumberInputs}

\* configurations of width w: all of them for a small w
RowInputs(w) ==
    IF w <= MaxN THEN [1..w -> Vals]
    ELSE {[i \in 1..w |-> v] : v \in Vals}

WidthInputs(h) == {w \in {size(h) - 1, size(h), size(h) + 1} : w >= 0}

RowBatches(w) ==
    {<<>>} \cup {<<a>> : a \in RowInputs(w)}
           \cup {<<a, b>> : a, b \in RowInputs(w)}

(***************************************************************************)
(* The state after construction: HomogeneousHilbert(local_states, N,      *)
(* constraint_fn), with self.__hilbert_index = None (homogeneous.py:86).   *)
(***************************************************************************)
HInit ==
    /\ hs \in {HomogeneousInit(ls, N, cfn) :
                  ls \in LocalStatesArgs, N \in SiteCounts,
                  cfn \in ConstraintArgs}
    /\ hidx = NoIndex
    /\ builds = 0
    /\ last = NoOp
    /\ prev = NoOp

\* what an operation leaves behind
Done(op, scalar, in_nums, in_width, in_rows, o, chained) ==
    /\ last' = OpRec(op, scalar, in_nums, in_width, in_rows, o, FALSE)
    /\ hidx' = o.cache
    /\ builds' = o.builds
    /\ prev' = IF chained THEN last ELSE NoOp
    /\ UNCHANGED <<hs, notH>>

\* The caller drops the value the last operation returned.  Operations on
\* fresh inputs start from here, so that the record `last` of one operation
\* never mixes with the next; the object (hs, hidx, builds) is left as it is.
Discard ==
    /\ last # NoOp
    /\ last' = NoOp
    /\ prev' = NoOp
    /\ UNCHANGED <<hs, hidx, builds, notH>>

\* reading shape, size, is_finite, constrained or is_indexable
ReadProperty ==
    /\ last = NoOp
    /\ \E p \in PropertyNames :
        LET v == CASE p = "shape" -> hs.shape
                   [] p = "size"  -> <<size(hs)>>
                   [] OTHER       -> <<>>
            f == CASE p = "is_finite"    -> hs.is_finite
                   [] p = "constrained"  -> constrained(hs)
                   [] p = "is_indexable" -> is_indexable(hs)
                   [] OTHER              -> FALSE
        IN  /\ last' = OpRec(p, FALSE, <<>>, 0, <<>>,
                             Outcome("none", hidx, builds, 0, v, <<>>, 0), f)
            /\ prev' = NoOp
            /\ UNCHANGED <<hs, hidx, builds, notH>>

NStates ==
    /\ last = NoOp
    /\ Done("n_states", FALSE, <<>>, 0, <<>>, HH_n_states(hs, hidx, builds),
         FALSE)

NumbersToStatesScalar ==
    /\ last = NoOp
    /\ \E n \in NumberInputs :
        Done("numbers_to_states", TRUE, <<n>>, 0, <<>>,
             DH_numbers_to_states(hs, hidx, builds, TRUE, <<n>>), FALSE)

NumbersToStatesBatch ==
    /\ last = NoOp
    /\ \E b \in NumberBatches :
        Done("numbers_to_states", FALSE, b, 0, <<>>,
             DH_numbers_to_states(hs, hidx, builds, FALSE, b), FALSE)

\* numbers_to_states of what the last states_to_numbers returned
NumbersToStatesOfLast ==
    /\ last.op = "states_to_numbers"
    /\ last.err = "none"
    /\ Done("numbers_to_states", last.scalar, last.nums, 0, <<>>,
            DH_numbers_to_states(hs, hidx, builds, last.scalar, last.nums),
            TRUE)

StatesToNumbersScalar ==
    /\ last = NoOp
    /\ \E w \in WidthInputs(hs) : \E r \in RowInputs(w) :
        Done("states_to_numbers", TRUE, <<>>, w, <<r>>,
             DH_states_to_numbers(hs, hidx, builds, TRUE, w, <<r>>), FALSE)

StatesToNumbersBatch ==
    /\ last = NoOp
    /\ \E w \in WidthInputs(hs) : \E b \in RowBatches(w) :
        Done("states_to_numbers", FALSE, <<>>, w, b,
             DH_states_to_numbers(hs, hidx, builds, FALSE, w, b), FALSE)

\* states_to_numbers of what the last decoding operation returned
StatesToNumbersOfLast ==
    /\ last.op \in {"numbers_to_states", "all_states", "all_states_base"}
    /\ last.err = "none"
    /\ Done("states_to_numbers", last.scalar, <<>>, size(hs), last.rows,
            DH_states_to_numbers(hs, hidx, builds, last.scalar, size(hs),
                                 last.rows),
            TRUE)

AllStates ==
    /\ last = NoOp
    /\ Done("all_states", FALSE, <<>>, 0, <<>>, HH_all_states(hs, hidx, builds),
         FALSE)

\* DiscreteHilbert.all_states(hs), the method HomogeneousHilbert overrides
AllStatesBase ==
    /\ last = NoOp
    /\ Done("all_states_base", FALSE, <<>>, 0, <<>>,
         DH_all_states(hs, hidx, builds), FALSE)

\* list(hs.states())
States ==
    /\ last = NoOp
    /\ Done("states", FALSE, <<>>, 0, <<>>, DH_states(hs, hidx, builds), FALSE)

HNext ==
    \/ Discard
    \/ ReadProperty
    \/ NStates
    \/ NumbersToStatesScalar
    \/ NumbersToStatesBatch
    \/ NumbersToStatesOfLast
    \/ StatesToNumbersScalar
    \/ StatesToNumbersBatch
    \/ StatesToNumbersOfLast
    \/ AllStates
    \/ AllStatesBase
    \/ States

(***************************************************************************)
(* Properties of the indexing operations.                                  *)
(***************************************************************************)
\* a configuration of the space: one local state per site and, in a
\* constrained space, accepted by the constraint
ValidConfiguration(h, row) ==
    /\ Len(row) = size(h)
    /\ InLocalBasis(h.local_states, row)
    /\ constrained(h) => ConstraintHolds(h.constraint_fn, row)

Distinct(rows) ==
    \A i, j \in 1..Len(rows) : i # j => rows[i] # rows[j]

DistinctLocalStates(h) == Distinct(h.local_states)

\* C1: for every indexable space and every n with 0 <= n < n_states,
\* states_to_numbers(numbers_to_states(n)) == n.
C1_RoundTripNumbers ==
    (/\ last.op = "states_to_numbers"
     /\ prev.op = "numbers_to_states"
     /\ prev.err = "none"
     /\ \A i \in 1..Len(prev.in_nums) :
            0 <= prev.in_nums[i] /\ prev.in_nums[i] < Index_n_states(hidx))
    => (last.err = "none" /\ last.nums = prev.in_nums)

\* The round trip of C1 on the spaces whose local states are pairwise
\* distinct.
RoundTripNumbersDistinctBasis ==
    DistinctLocalStates(hs) => C1_RoundTripNumbers

\* C2: for every indexable space and every valid configuration s,
\* states_to_numbers(s) returns a number and
\* numbers_to_states(states_to_numbers(s)) == s.
C2_RoundTripStates ==
    /\ (/\ last.op = "states_to_numbers"
        /\ is_indexable(hs)
        /\ last.in_width = size(hs)
        /\ \A i \in 1..Len(last.in_rows) :
               ValidConfiguration(hs, last.in_rows[i]))
       => last.err = "none"
    /\ (/\ last.op = "numbers_to_states"
        /\ prev.op = "states_to_numbers"
        /\ \A i \in 1..Len(prev.in_rows) :
               ValidConfiguration(hs, prev.in_rows[i]))
       => (last.err = "none" /\ last.rows = prev.in_rows)

C2_Witness ==
    /\ last.op = "numbers_to_states"
    /\ prev.op = "states_to_numbers"
    /\ constrained(hs)
    /\ Len(prev.in_rows) = 2
    /\ \A i \in 1..2 : ValidConfiguration(hs, prev.in_rows[i])
    /\ prev.in_rows[1] # prev.in_rows[2]
    /\ last.rows = prev.in_rows

\* C3: all_states() returns exactly n_states rows, pairwise distinct, each
\* satisfying the constraint when the space has one.
C3_EnumerationComplete ==
    (last.op \in {"all_states", "all_states_base"} /\ last.err = "none")
    => /\ Len(last.rows) = Index_n_states(hidx)
       /\ Distinct(last.rows)
       /\ \A i \in 1..Len(last.rows) :
              ConstraintHolds(hs.constraint_fn, last.rows[i])

\* The enumeration of C3 on the spaces whose local states are pairwise
\* distinct.
EnumerationCompleteDistinctBasis ==
    DistinctLocalStates(hs) => C3_EnumerationComplete

\* C4: in a constrained space, for any two valid configurations a and b, the
\* number of a is less than the number of b exactly when the unconstrained
\* (mixed-radix) number of a is less than that of b.
C4_StableFilter ==
    (/\ last.op = "states_to_numbers"
     /\ ~last.scalar
     /\ last.in_width = size(hs)
     /\ Len(last.in_rows) = 2
     /\ is_indexable(hs)
     /\ constrained(hs)
     /\ \A i \in 1..2 : ValidConfiguration(hs, last.in_rows[i]))
    => /\ last.err = "none"
       /\ (last.nums[1] < last.nums[2]) <=>
              (UnconstrainedEncode(hs.local_states, last.in_rows[1])
                 < UnconstrainedEncode(hs.local_states, last.in_rows[2]))

\* two valid configurations whose unconstrained numbers are not adjacent
C4_Witness ==
    /\ last.op = "states_to_numbers"
    /\ ~last.scalar
    /\ Len(last.in_rows) = 2
    /\ constrained(hs)
    /\ \A i \in 1..2 : ValidConfiguration(hs, last.in_rows[i])
    /\ last.err = "none"
    /\ last.nums[1] > last.nums[2]
    /\ UnconstrainedEncode(hs.local_states, last.in_rows[1])
         > UnconstrainedEncode(hs.local_states, last.in_rows[2]) + 1
    /\ last.nums[1] = last.nums[2] + 1

\* C6 as stated: on a space that is not indexable every indexing attempt
\* fails with the not-indexable error (the RuntimeError of _hilbert_index),
\* returns nothing, and no engine is ever cached.
C6_AllAttemptsNotIndexable ==
    ~is_indexable(hs) =>
        /\ hidx = NoIndex
        /\ builds = 0
        /\ last.op \in IndexingOps =>
              (last.err = "RuntimeError" /\ last.nums = <<>>
                 /\ last.rows = <<>>)

\* states_to_numbers on an input whose last dimension is not the number of
\* sites
WrongWidth(r) == r.op = "states_to_numbers" /\ r.in_width # size(hs)

\* C6 as amended: on a space that is not indexable every indexing attempt
\* fails and returns nothing, after any sequence of attempts, and no engine
\* is ever built or cached; the failure is the RuntimeError of
\* _hilbert_index, except for states_to_numbers on an input of the wrong
\* width, which fails with ValueError.
C6_NotIndexableFails ==
    ~is_indexable(hs) =>
        /\ hidx = NoIndex
        /\ builds = 0
        /\ last.op \in IndexingOps =>
              /\ last.err = IF WrongWidth(last) THEN "ValueError"
                            ELSE "RuntimeError"
              /\ last.nums = <<>>
              /\ last.rows = <<>>
              /\ last.eng = 0

\* a finite space, too large to index, refusing numbers_to_states
C6_Witness ==
    /\ hs.is_finite
    /\ ~is_indexable(hs)
    /\ last.op = "numbers_to_states"
    /\ last.in_nums = <<0, 1>>
    /\ last.err = "RuntimeError"

\* some number of the batch is >= n_states
OutOfRangeBatch ==
    /\ last.op = "numbers_to_states"
    /\ hidx # NoIndex
    /\ \E i \in 1..Len(last.in_nums) :
           last.in_nums[i] >= Index_n_states(hidx)

\* C7 as stated: numbers_to_states fails with IndexError if any number of
\* the batch is >= n_states, and then decodes nothing.
C7_OutOfRangeIndexError ==
    OutOfRangeBatch => (last.err = "IndexError" /\ last.prim = 0)

\* C7 as amended: numbers_to_states fails with ValueError if any number of
\* the batch is >= n_states; no configuration is then decoded
\* (_numbers_to_states is not invoked) and nothing is returned.
C7_OutOfRangeValueError ==
    OutOfRangeBatch =>
        (last.err = "ValueError" /\ last.prim = 0 /\ last.rows = <<>>)

\* a batch whose first number is in range and whose second is not
C7_Witness ==
    /\ OutOfRangeBatch
    /\ Len(last.in_nums) = 2
    /\ 0 <= last.in_nums[1]
    /\ last.in_nums[1] < Index_n_states(hidx)
    /\ last.err = "ValueError"

\* what C8 says of every step, but for when the engine is built
LazyOnce ==
    /\ builds = 0 => hidx = NoIndex
    /\ builds' <= 1
    /\ last'.op \in PropertyNames => UNCHANGED <<hidx, builds>>
    /\ hidx # NoIndex => UNCHANGED <<hidx, builds>>
    /\ last'.eng # 0 => (hidx' # NoIndex /\ last'.eng = hidx'.id)

\* C8 as stated: the engine is not built by construction nor by reading
\* shape, size, is_finite, constrained or is_indexable; the first indexing
\* operation builds it; every later operation reuses that instance.
C8_BuiltByFirstIndexingOp ==
    [][/\ LazyOnce
       /\ (last'.op \in IndexingOps /\ is_indexable(hs)) => hidx' # NoIndex
      ]_vars

\* C8 as amended: the engine is not built by construction nor by reading
\* shape, size, is_finite, constrained or is_indexable; on an indexable
\* space it is built by the first indexing operation that reaches it
\* (n_states, numbers_to_states, all_states, the iteration of states(), or
\* states_to_numbers on an input of the right width), while
\* states_to_numbers on an input of the wrong width leaves it unbuilt; it is
\* built at most once and every later operation reuses that instance.
C8_LazyBuiltOnce ==
    [][/\ LazyOnce
       /\ (last'.op \in IndexingOps /\ is_indexable(hs)) =>
             IF WrongWidth(last') THEN UNCHANGED <<hidx, builds>>
             ELSE hidx' # NoIndex /\ last'.eng = hidx'.id
      ]_vars

\* a second operation on the engine the first one built
C8_Witness ==
    /\ prev.op = "numbers_to_states"
    /\ prev.eng = 1
    /\ last.op = "states_to_numbers"
    /\ last.eng = 1
    /\ builds = 1
    /\ hidx.kind = "Constrained"

(***************************************************************************)
(* is_indexable on shapes up to the capacity boundary.  The space is       *)
(* reduced to the two fields DiscreteHilbert.is_indexable reads; the       *)
(* local size is given directly (None: infinitely many local states), so   *)
(* that local sizes too large to list are covered.                         *)
(***************************************************************************)
\* the largest number of sites tried
MaxSites == 32

\* local sizes: small ones, and the ones around the square root (46340),
\* the cube root (1290) and the 16th root (3) of 2^31, and 2^31-1 itself
LocalSizeArgs == {0, 1, 2, 3, 4, 1290, 1291, 46340, 46341, 65536, 2147483647}

NoAnswer == [read |-> FALSE, val |-> FALSE]

DInit ==
    /\ dims \in {[is_finite |-> TRUE, shape |-> HomShape(d, N)] :
                    d \in LocalSizeArgs, N \in 0..MaxSites}
                \cup {[is_finite |-> FALSE, shape |-> HomShape(IntpMax, N)] :
                    N \in 0..MaxSites}
    /\ answer = NoAnswer

ReadIsIndexable ==
    /\ answer' = [read |-> TRUE, val |-> IsIndexable(dims.is_finite, dims.shape)]
    /\ UNCHANGED <<dims, notD>>

DNext == ReadIsIndexable

RECURSIVE DivideBy(_, _)
\* cap divided (rounding down) by each dimension of shape in turn: it stays
\* at least 1 exactly when the product of the dimensions is at most cap
DivideBy(cap, shape) ==
    IF shape = <<>> THEN cap
    ELSE IF Head(shape) = IntpMax THEN 0
    ELSE DivideBy(cap \div Head(shape), Tail(shape))

HasZero(shape) == \E i \in 1..Len(shape) : shape[i] = 0

\* C5: is_indexable is true exactly when the space is finite and the product
\* of its local dimensions is at most 2^31-1; a space with infinitely many
\* local states is never indexable.
C5_IndexableIffFits ==
    answer.read =>
        /\ answer.val <=>
              (dims.is_finite /\
                 (HasZero(dims.shape) \/ DivideBy(2147483647, dims.shape) >= 1))
        /\ ~dims.is_finite => ~answer.val

\* both sides of the boundary: 46340^2 fits, 46341^2 does not
C5_Witness ==
    /\ answer.read
    /\ answer.val
    /\ dims.shape = <<46340, 46340>>

(***************************************************************************)
(* The sampler (netket/sampler/base.py).  _init_state, _reset and          *)
(* _sample_chain are abstract: a SamplerState is modelled by what their    *)
(* contracts say of it: the generator key it was initialised with, whether *)
(* it has been reset since (stage), the parameters of its last reset, and  *)
(* how many steps its chains have advanced.                                *)
(***************************************************************************)
\* the caller keeps at most MaxHeld states
MaxHeld == 1
\* seeds are 0..MaxSeed
MaxSeed == 1
\* chains advance at most MaxPos steps in all
MaxPos == 3
\* chain_length ranges over 0..MaxChain
MaxChain == 2

Seeds == 0..MaxSeed

\* the parameters of the density function
Params == {"theta1", "theta2"}

NoState == [some |-> FALSE, key |-> 0, stage |-> "None", pars |-> "None", pos |-> 0]

\* Sampler._init_state(machine, parameters, key)
PrimInitState(pars, key) ==
    [some |-> TRUE, key |-> key, stage |-> "Initialized", pars |-> "None",
     pos |-> 0]

\* Sampler._reset(machine, parameters, state): "a valid sampler state"
PrimReset(pars, st) == [st EXCEPT !.stage = "Ready", !.pars = pars]

\* Sampler._sample_chain(machine, parameters, state, chain_length)
PrimSampleChain(pars, st, len) == [st EXCEPT !.pos = st.pos + len]

\* the seed argument of init_state; none: no seed is passed
NoSeed == [none |-> TRUE, val |-> 0]

\* one call of a primitive: its input state, its chain_length, its result;
\* for _init_state, the seed its key was made of
Call(fn, pars, sin, len, sout) ==
    [fn |-> fn, pars |-> pars, sin |-> sin, len |-> len, sout |-> sout,
     seed |-> NoSeed]

\* the outcome of a public method: the primitive calls made, in order, and
\* the state returned
Result(cs, st) == [calls |-> cs, state |-> st]

(***************************************************************************)
(* Sampler.init_state (base.py:202-231).  seed.none: no seed was given and *)
(* nkjax.PRNGKey draws one, `entropy`.                                     *)
(***************************************************************************)
S_init_state(pars, seed, entropy) ==
    LET key == IF seed.none THEN entropy ELSE seed.val
        st  == PrimInitState(pars, key)
    IN  Result(<<[Call("_init_state", pars, NoState, 0, st)
                    EXCEPT !.seed = seed]>>, st)

(***************************************************************************)
(* Sampler.reset (base.py:233-250).  given: a state was passed.            *)
(***************************************************************************)
\* a variant that initialises a fresh state even when one is passed
S_reset_always_init(pars, given, st, entropy) ==
    LET i  == S_init_state(pars, NoSeed, entropy)
        s1 == PrimReset(pars, i.state)
    IN  Result(i.calls \o <<Call("_reset", pars, i.state, 0, s1)>>, s1)

S_reset(pars, given, st, entropy) ==
    LET i  == IF given THEN Result(<<>>, st)
              ELSE S_init_state(pars, NoSeed, entropy)
        s1 == PrimReset(pars, i.state)
    IN  Result(i.calls \o <<Call("_reset", pars, i.state, 0, s1)>>, s1)

(***************************************************************************)
(* Sampler.sample (base.py:252-270).                                       *)
(***************************************************************************)
\* a variant that only initialises a missing state, without resetting it
S_sample_no_reset(pars, given, st, len, entropy) ==
    LET r  == IF given THEN Result(<<>>, st)
              ELSE S_init_state(pars, NoSeed, entropy)
        s2 == PrimSampleChain(pars, r.state, len)
    IN  Result(r.calls \o <<Call("_sample_chain", pars, r.state, len, s2)>>,
               s2)

\* a variant that resets the state it is given
S_sample_always_reset(pars, given, st, len, entropy) ==
    LET r  == S_reset(pars, given, st, entropy)
        s2 == PrimSampleChain(pars, r.state, len)
    IN  Result(r.calls \o <<Call("_sample_chain", pars, r.state, len, s2)>>,
               s2)

S_sample(pars, given, st, len, entropy) ==
    LET r  == IF given THEN Result(<<>>, st)
              ELSE S_reset(pars, FALSE, NoState, entropy)
        s2 == PrimSampleChain(pars, r.state, len)
    IN  Result(r.calls \o <<Call("_sample_chain", pars, r.state, len, s2)>>,
               s2)

(***************************************************************************)
(* The caller: it holds states in slots, passes one of them (or none) to   *)
(* a method and stores the state returned in a slot.                       *)
(***************************************************************************)
Slots == 1..MaxHeld

ApiCall(name, given, arg, len, ret) ==
    [name |-> name, given |-> given, arg |-> arg, len |-> len, ret |-> ret]

NoCall == ApiCall("none", FALSE, NoState, 0, NoState)

SInit ==
    /\ held = [s \in Slots |-> NoState]
    /\ api = NoCall
    /\ calls = <<>>

\* state = sampler.init_state(machine, parameters, seed)
InitStateSeeded ==
    \E dst \in Slots, pars \in Params, seed \in Seeds :
        LET r == S_init_state(pars, [none |-> FALSE, val |-> seed], 0) IN
        /\ api' = ApiCall("init_state", FALSE, NoState, 0, r.state)
        /\ calls' = r.calls
        /\ held' = [held EXCEPT ![dst] = r.state]
        /\ UNCHANGED notS

\* state = sampler.init_state(machine, parameters)
InitStateUnseeded ==
    \E dst \in Slots, pars \in Params, entropy \in Seeds :
        LET r == S_init_state(pars, NoSeed, entropy) IN
        /\ api' = ApiCall("init_state", FALSE, NoState, 0, r.state)
        /\ calls' = r.calls
        /\ held' = [held EXCEPT ![dst] = r.state]
        /\ UNCHANGED notS

\* state = sampler.reset(machine, parameters)
ResetFresh ==
    \E dst \in Slots, pars \in Params, entropy \in Seeds :
        LET r == S_reset(pars, FALSE, NoState, entropy) IN
        /\ api' = ApiCall("reset", FALSE, NoState, 0, r.state)
        /\ calls' = r.calls
        /\ held' = [held EXCEPT ![dst] = r.state]
        /\ UNCHANGED notS

\* state = sampler.reset(machine, parameters, state)
ResetGiven ==
    \E src \in Slots, dst \in Slots, pars \in Params :
        LET r == S_reset(pars, TRUE, held[src], 0) IN
        /\ held[src].some
        /\ api' = ApiCall("reset", TRUE, held[src], 0, r.state)
        /\ calls' = r.calls
        /\ held' = [held EXCEPT ![dst] = r.state]
        /\ UNCHANGED notS

\* samples, state = sampler.sample(machine, parameters, chain_length=len)
SampleFresh ==
    \E dst \in Slots, pars \in Params, entropy \in Seeds, len \in 0..MaxChain :
        LET r == S_sample(pars, FALSE, NoState, len, entropy) IN
        /\ api' = ApiCall("sample", FALSE, NoState, len, r.state)
        /\ calls' = r.calls
        /\ held' = [held EXCEPT ![dst] = r.state]
        /\ UNCHANGED notS

\* samples, state = sampler.sample(machine, parameters, state=state,
\*                                 chain_length=len)
SampleGiven ==
    \E src \in Slots, dst \in Slots, pars \in Params, len \in 0..MaxChain :
        LET r == S_sample(pars, TRUE, held[src], len, 0) IN
        /\ held[src].some
        /\ held[src].pos + len <= MaxPos
        /\ api' = ApiCall("sample", TRUE, held[src], len, r.state)
        /\ calls' = r.calls
        /\ held' = [held EXCEPT ![dst] = r.state]
        /\ UNCHANGED notS

SNext ==
    \/ InitStateSeeded
    \/ InitStateUnseeded
    \/ ResetFresh
    \/ ResetGiven
    \/ SampleFresh
    \/ SampleGiven

(***************************************************************************)
(* The batches of sample and the generator of samples (base.py:252-290).   *)
(* _sample_chain is abstract: the concrete sampler decides how many chains *)
(* a batch holds and how its axes are ordered.  A configuration (the sites *)
(* axis) is modelled by what determines it: the chain, the generator key   *)
(* of the state, the parameters, and the step of the chain.  The caller    *)
(* uses one generator at a time and calls reset and sample between two     *)
(* generators.                                                             *)
(***************************************************************************)
\* a concrete sampler runs 1..MaxNChains chains
MaxNChains == 2

Layouts == {"chains_first", "length_first"}

Impls == [n_chains : 1..MaxNChains, layout : Layouts]

Configuration(c, pars, st, k) ==
    [chain |-> c, key |-> st.key, pars |-> pars, step |-> st.pos + k]

\* the array Sampler._sample_chain returns with the new state:
\* chains_first: axes (chains, chain_length, sites);
\* length_first: axes (chain_length, chains, sites)
PrimSampleChainBatch(im, pars, st, len) ==
    IF im.layout = "chains_first"
    THEN [c \in 1..im.n_chains |->
            [k \in 1..len |-> Configuration(c, pars, st, k)]]
    ELSE [k \in 1..len |->
            [c \in 1..im.n_chains |-> Configuration(c, pars, st, k)]]

\* the array Sampler.sample returns: what _sample_chain returned
S_sample_batch(im, pars, given, st, len, entropy) ==
    LET r == S_sample(pars, given, st, len, entropy) IN
    PrimSampleChainBatch(im, pars, r.calls[Len(r.calls)].sin, len)

\* samples[:, 0, :]
SliceAxis1(arr) == [i \in 1..Len(arr) |-> arr[i][1]]

\* samples[0, :, :]
SliceAxis0(arr) == arr[1]

NoGen ==
    [live |-> FALSE, started |-> FALSE, given |-> FALSE, pars |-> "None",
     state |-> NoState, len |-> 0, todo |-> 0, exhausted |-> FALSE]

\* a variant that resets a missing state when it is called
S_samples_reset_at_call(pars, given, st, len) ==
    [live |-> TRUE, started |-> FALSE, given |-> TRUE, pars |-> pars,
     state |-> S_reset(pars, given, st, 0).state, len |-> len, todo |-> len,
     exhausted |-> FALSE]

\* Sampler.samples is a generator function: calling it runs none of its
\* body and only binds the arguments
S_samples(pars, given, st, len) ==
    [live |-> TRUE, started |-> FALSE, given |-> given, pars |-> pars,
     state |-> st, len |-> len, todo |-> len, exhausted |-> FALSE]

\* one advance of the generator: the generator afterwards, the primitive
\* calls made, and the batch yielded, if any (stop: StopIteration)
Advanced(g, cs, stop, batch) ==
    [gen |-> g, calls |-> cs, stop |-> stop, batch |-> batch]

\* a variant whose loop slices axis 0
S_samples_next_axis0(im, g, entropy) ==
    LET r  == IF g.started \/ g.given THEN Result(<<>>, g.state)
              ELSE S_reset(g.pars, FALSE, NoState, entropy)
        s2 == PrimSampleChain(g.pars, r.state, 1)
    IN  IF g.exhausted
        THEN \* a generator that has returned raises StopIteration again
             Advanced(g, <<>>, TRUE, <<>>)
        ELSE IF g.todo = 0
        THEN Advanced([g EXCEPT !.started = TRUE, !.state = r.state,
                                !.exhausted = TRUE],
                      r.calls, TRUE, <<>>)
        ELSE Advanced([g EXCEPT !.started = TRUE, !.state = s2,
                                !.todo = g.todo - 1],
                      r.calls \o <<Call("_sample_chain", g.pars, r.state, 1, s2)>>,
                      FALSE,
                      SliceAxis0(PrimSampleChainBatch(im, g.pars, r.state, 1)))

\* a variant that advances the whole chain at the first advance
S_samples_next_eager(im, g, entropy) ==
    LET r  == IF g.started \/ g.given THEN Result(<<>>, g.state)
              ELSE S_reset(g.pars, FALSE, NoState, entropy)
        s2 == PrimSampleChain(g.pars, r.state, g.len)
    IN  IF g.exhausted
        THEN \* a generator that has returned raises StopIteration again
             Advanced(g, <<>>, TRUE, <<>>)
        ELSE IF g.todo = 0
        THEN Advanced([g EXCEPT !.started = TRUE, !.state = r.state,
                                !.exhausted = TRUE],
                      r.calls, TRUE, <<>>)
        ELSE Advanced([g EXCEPT !.started = TRUE, !.state = s2,
                                !.todo = g.todo - 1],
                      r.calls \o <<Call("_sample_chain", g.pars, r.state,
                                        g.len, s2)>>,
                      FALSE,
                      SliceAxis1(PrimSampleChainBatch(im, g.pars, r.state, 1)))

\* the body of Sampler.samples up to its next yield or its end
\* (base.py:283-290)
S_samples_next(im, g, entropy) ==
    LET r  == IF g.started \/ g.given THEN Result(<<>>, g.state)
              ELSE S_reset(g.pars, FALSE, NoState, entropy)
        s2 == PrimSampleChain(g.pars, r.state, 1)
    IN  IF g.exhausted
        THEN \* a generator that has returned raises StopIteration again
             Advanced(g, <<>>, TRUE, <<>>)
        ELSE IF g.todo = 0
        THEN Advanced([g EXCEPT !.started = TRUE, !.state = r.state,
                                !.exhausted = TRUE],
                      r.calls, TRUE, <<>>)
        ELSE Advanced([g EXCEPT !.started = TRUE, !.state = s2,
                                !.todo = g.todo - 1],
                      r.calls \o <<Call("_sample_chain", g.pars, r.state, 1, s2)>>,
                      FALSE,
                      SliceAxis1(PrimSampleChainBatch(im, g.pars, r.state, 1)))

\* the record of a call: for sample, the batch and the state returned; for
\* an advance of the generator, the batch yielded, or stop
Got(op, given, arg, len, cs, batch, ret, stop) ==
    [op |-> op, given |-> given, arg |-> arg, len |-> len, calls |-> cs,
     batch |-> batch, ret |-> ret, stop |-> stop]

NoGot == Got("none", FALSE, NoState, 0, <<>>, <<>>, NoState, FALSE)

GInit ==
    /\ impl \in Impls
    /\ cur = NoState
    /\ gen = NoGen
    /\ got = NoGot

\* state = sampler.reset(machine, parameters, state), state given or not
GReset ==
    \E pars \in Params, given \in BOOLEAN, entropy \in Seeds :
        LET r == S_reset(pars, given, cur, entropy) IN
        /\ ~gen.live
        /\ given => cur.some
        /\ cur' = r.state
        /\ got' = Got("reset", given, IF given THEN cur ELSE NoState, 0,
                      r.calls, <<>>, r.state, FALSE)
        /\ UNCHANGED <<impl, gen, notG>>

\* samples, state = sampler.sample(machine, parameters, state=state,
\*                                 chain_length=len), state given or not
GSample ==
    \E pars \in Params, given \in BOOLEAN, entropy \in Seeds,
       len \in 0..MaxChain :
        LET r == S_sample(pars, given, cur, len, entropy) IN
        /\ ~gen.live
        /\ given => cur.some /\ cur.pos + len <= MaxPos
        /\ cur' = r.state
        /\ got' = Got("sample", given, IF given THEN cur ELSE NoState, len,
                      r.calls,
                      S_sample_batch(impl, pars, given, cur, len, entropy),
                      r.state, FALSE)
        /\ UNCHANGED <<impl, gen, notG>>

\* it = sampler.samples(machine, parameters, state=state, chain_length=len)
GSamples ==
    \E pars \in Params, given \in BOOLEAN, len \in 0..MaxChain :
        /\ ~gen.live
        /\ given => cur.some /\ cur.pos + len <= MaxPos
        /\ gen' = S_samples(pars, given, IF given THEN cur ELSE NoState, len)
        /\ got' = Got("samples", given, IF given THEN cur ELSE NoState, len,
                      <<>>, <<>>, NoState, FALSE)
        /\ UNCHANGED <<impl, cur, notG>>

\* next(it)
GAdvance ==
    \E entropy \in Seeds :
        LET a == S_samples_next(impl, gen, entropy) IN
        /\ gen.live
        /\ gen' = a.gen
        /\ got' = Got("next", gen.given, gen.state, 1, a.calls, a.batch,
                      a.gen.state, a.stop)
        /\ UNCHANGED <<impl, cur, notG>>

\* del it: the caller drops the generator, exhausted or not
GDrop ==
    /\ gen.live
    /\ gen' = NoGen
    /\ got' = NoGot
    /\ UNCHANGED <<impl, cur, notG>>

GNext ==
    \/ GReset
    \/ GSample
    \/ GSamples
    \/ GAdvance
    \/ GDrop

(***************************************************************************)
(* Two runs of one program on one sampler: both make the same calls with   *)
(* the same arguments, each passing its own state where the program passes *)
(* one; what nkjax.PRNGKey(None) draws is each run's own (entropy).        *)
(* TwinGot records the call and what each run got back; same_calls: since  *)
(* the last init_state with an explicit seed, every call was passed the    *)
(* state.                                                                  *)
(***************************************************************************)
Runs == 1..2

TwinGot(op, given, len, batches, same) ==
    [op |-> op, given |-> given, len |-> len, batches |-> batches,
     same_calls |-> same]

TInit ==
    /\ twin = [r \in Runs |-> NoState]
    /\ tgot = TwinGot("none", FALSE, 0, [r \in Runs |-> <<>>], FALSE)

\* state = sampler.init_state(machine, parameters, seed=seed)
TInitState ==
    \E pars \in Params, seed \in Seeds, entropy \in [Runs -> Seeds] :
        /\ twin' = [r \in Runs |->
                      S_init_state(pars, [none |-> FALSE, val |-> seed],
                                   entropy[r]).state]
        /\ tgot' = TwinGot("init_state", FALSE, 0, [r \in Runs |-> <<>>], TRUE)
        /\ UNCHANGED notT

\* state = sampler.reset(machine, parameters, state), state given or not
TReset ==
    \E pars \in Params, given \in BOOLEAN, entropy \in [Runs -> Seeds] :
        /\ twin[1].some
        /\ twin' = [r \in Runs |->
                      S_reset(pars, given, twin[r], entropy[r]).state]
        /\ tgot' = TwinGot("reset", given, 0, [r \in Runs |-> <<>>],
                           tgot.same_calls /\ given)
        /\ UNCHANGED notT

\* samples, state = sampler.sample(machine, parameters, state=state,
\*                                 chain_length=len), state given or not
TSample ==
    \E pars \in Params, given \in BOOLEAN, entropy \in [Runs -> Seeds],
       len \in 0..MaxChain :
        /\ twin[1].some
        /\ given => \A r \in Runs : twin[r].pos + len <= MaxPos
        /\ twin' = [r \in Runs |->
                      S_sample(pars, given, twin[r], len, entropy[r]).state]
        /\ tgot' = TwinGot("sample", given, len,
                           [r \in Runs |->
                              S_sample_batch(impl, pars, given, twin[r], len,
                                             entropy[r])],
                           tgot.same_calls /\ given)
        /\ UNCHANGED notT

TNext ==
    \/ TInitState
    \/ TReset
    \/ TSample

(***************************************************************************)
(* Construction of a Sampler, its chain-count properties, and              *)
(* compute_n_chains (base.py:32-65, 101-179).  mpi.n_nodes and mpi.rank    *)
(* are fixed for a run.  The base class answers n_chains with mpi.n_nodes; *)
(* a subclass overrides n_chains with a number of its own.  The caller     *)
(* works on one sampler, or one compute_n_chains call, at a time.          *)
(***************************************************************************)
\* 1..MaxNodes workers
MaxNodes == 3
\* chain counts range up to MaxTotal
MaxTotal == 7

None == [none |-> TRUE, val |-> 0]

Some(v) == [none |-> FALSE, val |-> v]

\* the hilbert argument: an AbstractHilbert, or something else
HilbertArgs == {[is_hilbert |-> TRUE, name |-> "hi"],
                [is_hilbert |-> FALSE, name |-> "graph"]}

\* the machine_pow argument: Python ints, a float, a bool
MachinePowArgs == [kind : {"int"}, val : (-1)..2]
                  \cup {[kind |-> "float", val |-> 2], [kind |-> "bool", val |-> 1]}

DTypeArgs == {"float", "complex"}

\* a subclass's n_chains, or None: the property of the base class
NChainsArgs == {None} \cup {Some(c) : c \in 0..MaxTotal}

\* np.issubdtype(numbers.dtype(machine_pow), np.integer)
IsIntegerDType(machine_pow) == machine_pow.kind = "int"

\* origin: <<>>, or <<c>> for the compute_n_chains call c whose result
\* is the sampler's n_chains
NoSampler ==
    [called |-> FALSE, err |-> "none", examined |-> <<>>, assigned |-> {},
     args |-> [hilbert |-> [is_hilbert |-> FALSE, name |-> "None"],
               machine_pow |-> [kind |-> "int", val |-> 2],
               dtype |-> "float"],
     hilbert |-> "None", machine_pow |-> None, dtype |-> "None",
     n_chains |-> None, origin |-> <<>>]

\* the outcome of Sampler.__init__: the exception, the arguments examined
\* so far, the fields assigned so far and their values
Constructed(err, examined, assigned, hilbert, machine_pow, dtype, sub) ==
    [called |-> TRUE, err |-> err, examined |-> examined,
     assigned |-> assigned,
     args |-> [hilbert |-> hilbert, machine_pow |-> machine_pow,
               dtype |-> dtype],
     hilbert |-> IF "hilbert" \in assigned THEN hilbert.name ELSE "None",
     machine_pow |-> IF "machine_pow" \in assigned THEN Some(machine_pow.val)
                     ELSE None,
     dtype |-> IF "dtype" \in assigned THEN dtype ELSE "None",
     n_chains |-> IF err = "none" THEN sub ELSE None,
     origin |-> <<>>]

\* a variant that examines machine_pow before hilbert
SamplerInit_pow_first(hilbert, machine_pow, dtype, sub) ==
    IF ~IsIntegerDType(machine_pow)
    THEN Constructed("ValueError", <<"machine_pow">>, {},
                     hilbert, machine_pow, dtype, sub)
    ELSE IF ~hilbert.is_hilbert
    THEN Constructed("TypeError", <<"machine_pow", "hilbert">>, {},
                     hilbert, machine_pow, dtype, sub)
    ELSE Constructed("none", <<"machine_pow", "hilbert">>,
                     {"hilbert", "machine_pow", "dtype"},
                     hilbert, machine_pow, dtype, sub)

\* Sampler.__init__ (base.py:101-137)
SamplerInit(hilbert, machine_pow, dtype, sub) ==
    IF ~hilbert.is_hilbert
    THEN Constructed("TypeError", <<"hilbert">>, {},
                     hilbert, machine_pow, dtype, sub)
    ELSE IF ~IsIntegerDType(machine_pow)
    THEN Constructed("ValueError", <<"hilbert", "machine_pow">>, {},
                     hilbert, machine_pow, dtype, sub)
    ELSE Constructed("none", <<"hilbert", "machine_pow">>,
                     {"hilbert", "machine_pow", "dtype"},
                     hilbert, machine_pow, dtype, sub)

\* the value of a property, or the exception reading it raised
Answer(name, err, val) == [name |-> name, err |-> err, val |-> val,
                           warned |-> FALSE, args |-> <<>>]

NoRead == Answer("none", "none", 0)

\* Sampler.n_chains (base.py:153-160), or the subclass's
S_n_chains(m, s) == IF s.n_chains.none THEN m.n_nodes ELSE s.n_chains.val

\* a variant that rounds down instead of raising
S_n_chains_per_rank_floor(m, s) ==
    Answer("n_chains_per_rank", "none", S_n_chains(m, s) \div m.n_nodes)

\* Sampler.n_chains_per_rank (base.py:139-151)
S_n_chains_per_rank(m, s) ==
    LET res       == S_n_chains(m, s) \div m.n_nodes
        remainder == S_n_chains(m, s) % m.n_nodes
    IN  IF remainder # 0 THEN Answer("n_chains_per_rank", "RuntimeError", 0)
        ELSE Answer("n_chains_per_rank", "none", res)

\* Sampler.n_batches (base.py:162-169)
S_n_batches(m, s) == [S_n_chains_per_rank(m, s) EXCEPT !.name = "n_batches"]

NInit ==
    /\ mpi \in {[n_nodes |-> w, rank |-> r] :
                  w \in 1..MaxNodes, r \in 0..(MaxNodes - 1)}
    /\ mpi.rank < mpi.n_nodes
    /\ smp = NoSampler
    /\ rd = NoRead

\* sampler = Sampler(hilbert, machine_pow=machine_pow, dtype=dtype)
NewSampler ==
    \E hilbert \in HilbertArgs, machine_pow \in MachinePowArgs,
       dtype \in DTypeArgs, sub \in NChainsArgs :
        /\ ~smp.called
        /\ rd = NoRead
        /\ smp' = SamplerInit(hilbert, machine_pow, dtype, sub)
        /\ rd' = NoRead
        /\ UNCHANGED <<mpi, notN>>

\* sampler.n_chains
ReadNChains ==
    /\ smp.called /\ smp.err = "none"
    /\ rd' = Answer("n_chains", "none", S_n_chains(mpi, smp))
    /\ UNCHANGED <<mpi, smp, notN>>

\* sampler.n_chains_per_rank
ReadNChainsPerRank ==
    /\ smp.called /\ smp.err = "none"
    /\ rd' = S_n_chains_per_rank(mpi, smp)
    /\ UNCHANGED <<mpi, smp, notN>>

\* sampler.n_batches
ReadNBatches ==
    /\ smp.called /\ smp.err = "none"
    /\ rd' = S_n_batches(mpi, smp)
    /\ UNCHANGED <<mpi, smp, notN>>

\* int(np.ceil(c / w)) for w > 0
CeilDiv(c, w) == -((-c) \div w)

MaxOf(a, b) == IF a >= b THEN a ELSE b

\* the outcome of compute_n_chains: the exception or the value returned,
\* and whether warnings.warn was called
Computed(err, val, warned, per_rank, n_chains, default) ==
    [name |-> "compute_n_chains", err |-> err, val |-> val,
     warned |-> warned, args |-> <<per_rank, n_chains, default>>]

\* a variant that rounds down to whole chains per worker
compute_n_chains_floor(m, per_rank, n_chains, default) ==
    IF ~per_rank.none /\ ~n_chains.none
    THEN Computed("ValueError", 0, FALSE, per_rank, n_chains, default)
    ELSE LET n_chains_per_rank ==
                 IF ~n_chains.none
                 THEN MaxOf(n_chains.val \div m.n_nodes, 1)
                 ELSE IF per_rank.none THEN default ELSE per_rank.val
             warned ==
                 /\ ~n_chains.none
                 /\ m.n_nodes > 1 /\ m.rank = 0
                 /\ n_chains_per_rank * m.n_nodes # n_chains.val
         IN  IF n_chains_per_rank <= 0
             THEN Computed("TypeError", 0, warned, per_rank, n_chains, default)
             ELSE Computed("none", n_chains_per_rank * m.n_nodes, warned,
                           per_rank, n_chains, default)

\* a variant without the lower bound of one chain per worker
compute_n_chains_no_clamp(m, per_rank, n_chains, default) ==
    IF ~per_rank.none /\ ~n_chains.none
    THEN Computed("ValueError", 0, FALSE, per_rank, n_chains, default)
    ELSE LET n_chains_per_rank ==
                 IF ~n_chains.none
                 THEN CeilDiv(n_chains.val, m.n_nodes)
                 ELSE IF per_rank.none THEN default ELSE per_rank.val
             warned ==
                 /\ ~n_chains.none
                 /\ m.n_nodes > 1 /\ m.rank = 0
                 /\ n_chains_per_rank * m.n_nodes # n_chains.val
         IN  IF n_chains_per_rank <= 0
             THEN Computed("TypeError", 0, warned, per_rank, n_chains, default)
             ELSE Computed("none", n_chains_per_rank * m.n_nodes, warned,
                           per_rank, n_chains, default)

\* compute_n_chains (base.py:32-65)
compute_n_chains(m, per_rank, n_chains, default) ==
    IF ~per_rank.none /\ ~n_chains.none
    THEN Computed("ValueError", 0, FALSE, per_rank, n_chains, default)
    ELSE LET n_chains_per_rank ==
                 IF ~n_chains.none
                 THEN MaxOf(CeilDiv(n_chains.val, m.n_nodes), 1)
                 ELSE IF per_rank.none THEN default ELSE per_rank.val
             warned ==
                 /\ ~n_chains.none
                 /\ m.n_nodes > 1 /\ m.rank = 0
                 /\ n_chains_per_rank * m.n_nodes # n_chains.val
         IN  IF n_chains_per_rank <= 0
             THEN Computed("TypeError", 0, warned, per_rank, n_chains, default)
             ELSE Computed("none", n_chains_per_rank * m.n_nodes, warned,
                           per_rank, n_chains, default)

\* the n_chains_per_rank and n_chains arguments: None or an int
ChainCountArgs == {None} \cup {Some(c) : c \in (-1)..MaxTotal}

DefaultArgs == {0, 1, 16}

\* compute_n_chains(n_chains_per_rank, n_chains, default)
ComputeNChains ==
    \E per_rank \in ChainCountArgs, n_chains \in ChainCountArgs,
       default \in DefaultArgs :
        /\ ~smp.called
        /\ rd = NoRead
        /\ rd' = compute_n_chains(mpi, per_rank, n_chains, default)
        /\ UNCHANGED <<mpi, smp, notN>>

\* a sampler whose n_chains is what the last compute_n_chains call returned
NewSamplerComputed ==
    /\ ~smp.called
    /\ rd.name = "compute_n_chains" /\ rd.err = "none"
    /\ smp' = [SamplerInit([is_hilbert |-> TRUE, name |-> "hi"],
                           [kind |-> "int", val |-> 2], "float",
                           Some(rd.val))
                  EXCEPT !.origin = <<rd>>]
    /\ rd' = NoRead
    /\ UNCHANGED <<mpi, notN>>

\* the caller drops the sampler and the last answer
NDiscard ==
    /\ smp.called \/ rd # NoRead
    /\ smp' = NoSampler
    /\ rd' = NoRead
    /\ UNCHANGED <<mpi, notN>>

NNext ==
    \/ NDiscard
    \/ NewSampler
    \/ ReadNChains
    \/ ReadNChainsPerRank
    \/ ReadNBatches
    \/ ComputeNChains
    \/ NewSamplerComputed

(***************************************************************************)
(* One sampler driving two states.  Every call is passed one of the two    *)
(* states and the caller keeps the state returned in its place; `solo`     *)
(* follows the same calls made on each state without the other one.        *)
(***************************************************************************)
\* the two states the caller owns
Owned == 1..2

RECURSIVE Drain(_, _, _)
\* list(sampler.samples(...)): the batches of a generator advanced to its
\* end
Drain(im, g, entropy) ==
    LET a == S_samples_next(im, g, entropy) IN
    IF a.stop THEN <<>> ELSE <<a.batch>> \o Drain(im, a.gen, entropy)

PairGot(who, op, len, ret, batch, solo_batch) ==
    [who |-> who, op |-> op, len |-> len, ret |-> ret, batch |-> batch,
     solo_batch |-> solo_batch]

PInit ==
    /\ pair = [i \in Owned |-> NoState]
    /\ solo = [i \in Owned |-> NoState]
    /\ pgot = PairGot(0, "none", 0, NoState, <<>>, <<>>)

\* states[i] = sampler.init_state(machine, parameters, seed)
PInitState ==
    \E i \in Owned, pars \in Params, seed \in Seeds :
        LET r == S_init_state(pars, Some(seed), 0) IN
        /\ pair' = [pair EXCEPT ![i] = r.state]
        /\ solo' = [solo EXCEPT ![i] = r.state]
        /\ pgot' = PairGot(i, "init_state", 0, r.state, <<>>, <<>>)
        /\ UNCHANGED <<smp, notP>>

\* states[i] = sampler.reset(machine, parameters, states[i])
PReset ==
    \E i \in Owned, pars \in Params :
        LET r == S_reset(pars, TRUE, pair[i], 0) IN
        /\ pair[i].some
        /\ pair' = [pair EXCEPT ![i] = r.state]
        /\ solo' = [solo EXCEPT ![i] = S_reset(pars, TRUE, solo[i], 0).state]
        /\ pgot' = PairGot(i, "reset", 0, r.state, <<>>, <<>>)
        /\ UNCHANGED <<smp, notP>>

\* a variant in which the sampler goes on from the state it returned last
PSample_shared ==
    \E i \in Owned, pars \in Params, len \in 0..MaxChain :
        LET st == IF pgot.op = "none" THEN pair[i] ELSE pgot.ret
            r  == S_sample(pars, TRUE, st, len, 0) IN
        /\ pair[i].some
        /\ pair[i].pos + len <= MaxPos /\ st.pos + len <= MaxPos
        /\ pair' = [pair EXCEPT ![i] = r.state]
        /\ solo' = [solo EXCEPT
                       ![i] = S_sample(pars, TRUE, solo[i], len, 0).state]
        /\ pgot' = PairGot(i, "sample", len, r.state,
                           S_sample_batch(impl, pars, TRUE, st, len, 0),
                           S_sample_batch(impl, pars, TRUE, solo[i], len, 0))
        /\ UNCHANGED <<smp, notP>>

\* samples, states[i] = sampler.sample(machine, parameters,
\*                                     state=states[i], chain_length=len)
PSample ==
    \E i \in Owned, pars \in Params, len \in 0..MaxChain :
        LET r == S_sample(pars, TRUE, pair[i], len, 0) IN
        /\ pair[i].some
        /\ pair[i].pos + len <= MaxPos
        /\ pair' = [pair EXCEPT ![i] = r.state]
        /\ solo' = [solo EXCEPT
                       ![i] = S_sample(pars, TRUE, solo[i], len, 0).state]
        /\ pgot' = PairGot(i, "sample", len, r.state,
                           S_sample_batch(impl, pars, TRUE, pair[i], len, 0),
                           S_sample_batch(impl, pars, TRUE, solo[i], len, 0))
        /\ UNCHANGED <<smp, notP>>

\* list(sampler.samples(machine, parameters, state=states[i],
\*                      chain_length=len)): the generator keeps the states
\* it goes through to itself
PSamples ==
    \E i \in Owned, pars \in Params, len \in 0..MaxChain :
        /\ pair[i].some
        /\ pair[i].pos + len <= MaxPos
        /\ pgot' = PairGot(i, "samples", len, pair[i],
                           Drain(impl, S_samples(pars, TRUE, pair[i], len), 0),
                           Drain(impl, S_samples(pars, TRUE, solo[i], len), 0))
        /\ UNCHANGED <<pair, solo, smp, notP>>

PNext ==
    \/ PInitState
    \/ PReset
    \/ PSample
    \/ PSamples

(***************************************************************************)
(* Products of spaces: DiscreteHilbert.__mul__ (discrete_hilbert.py:       *)
(* 254-269).  A space is a homogeneous space of some concrete type (kind   *)
(* "Homogeneous"), a product of two discrete spaces, a generic product, a  *)
(* Hilbert space that is not discrete, or something that is no Hilbert     *)
(* space.  _mul_sametype_ and the product classes are not part of the      *)
(* sources at hand; they follow the composition rule of the specification.  *)
(***************************************************************************)
Homogeneous(ty, h) == [kind |-> "Homogeneous", type |-> ty, h |-> h]

Continuous == [kind |-> "Continuous", type |-> "Particle"]

NotAHilbert == [kind |-> "NotAHilbert", type |-> "int"]

NotImplemented == [kind |-> "NotImplemented", type |-> "NotImplementedType"]

\* isinstance(x, DiscreteHilbert)
IsDiscreteHilbert(x) == x.kind \in {"Homogeneous", "TensorDiscreteHilbert"}

\* isinstance(x, AbstractHilbert)
IsAbstractHilbert(x) ==
    x.kind \in {"Homogeneous", "TensorDiscreteHilbert", "TensorGenericHilbert",
                "Continuous"}

\* TensorDiscreteHilbert(a, b)
TensorDiscreteHilbert(a, b) ==
    [kind |-> "TensorDiscreteHilbert", type |-> "TensorDiscreteHilbert",
     left |-> a, right |-> b]

\* TensorGenericHilbert(a, b)
TensorGenericHilbert(a, b) ==
    [kind |-> "TensorGenericHilbert", type |-> "TensorGenericHilbert",
     left |-> a, right |-> b]

\* the specialized combiner of two spaces of one concrete type: one
\* homogeneous space over both sets of sites when the local states agree
\* and neither is constrained; otherwise it declines
MulSameType(a, b) ==
    IF /\ a.kind = "Homogeneous" /\ b.kind = "Homogeneous"
       /\ a.h.is_finite /\ b.h.is_finite
       /\ a.h.local_states = b.h.local_states
       /\ ~constrained(a.h) /\ ~constrained(b.h)
    THEN Homogeneous(a.type,
             HomogeneousInit([none |-> FALSE, vals |-> a.h.local_states],
                             size(a.h) + size(b.h), "None"))
    ELSE NotImplemented

\* a variant that builds the product with its operands exchanged
Mul_swapped(a, b) ==
    LET res == IF a.type = b.type THEN MulSameType(a, b) ELSE NotImplemented
    IN  IF res # NotImplemented THEN res
        ELSE IF IsDiscreteHilbert(b) THEN TensorDiscreteHilbert(b, a)
        ELSE IF IsAbstractHilbert(b) THEN TensorGenericHilbert(b, a)
        ELSE NotImplemented

\* a variant that gives up when the same-type combiner declines
Mul_no_fallback(a, b) ==
    IF a.type = b.type THEN MulSameType(a, b)
    ELSE IF IsDiscreteHilbert(b) THEN TensorDiscreteHilbert(a, b)
    ELSE IF IsAbstractHilbert(b) THEN TensorGenericHilbert(a, b)
    ELSE NotImplemented

\* DiscreteHilbert.__mul__(self, other)
Mul(a, b) ==
    LET res == IF a.type = b.type THEN MulSameType(a, b) ELSE NotImplemented
    IN  IF res # NotImplemented THEN res
        ELSE IF IsDiscreteHilbert(b) THEN TensorDiscreteHilbert(a, b)
        ELSE IF IsAbstractHilbert(b) THEN TensorGenericHilbert(a, b)
        ELSE NotImplemented

RECURSIVE T_shape(_)
\* the shape of a discrete space: of a product, the shapes of its operands
\* one after the other
T_shape(x) ==
    IF x.kind = "Homogeneous" THEN x.h.shape
    ELSE T_shape(x.left) \o T_shape(x.right)

RECURSIVE T_is_finite(_)
T_is_finite(x) ==
    IF x.kind = "Homogeneous" THEN x.h.is_finite
    ELSE T_is_finite(x.left) /\ T_is_finite(x.right)

RECURSIVE T_constrained(_)
T_constrained(x) ==
    IF x.kind = "Homogeneous" THEN constrained(x.h)
    ELSE T_constrained(x.left) \/ T_constrained(x.right)

\* DiscreteHilbert.is_indexable of a discrete space
T_is_indexable(x) == IsIndexable(T_is_finite(x), T_shape(x))

\* the value of n_states, or the exception reading it raised
Count(err, val) == [err |-> err, val |-> val]

RECURSIVE T_n_states(_)
\* n_states of a discrete space: of a product, the product of the numbers
\* of states of its operands (number = number_a * n_states_b + number_b)
T_n_states(x) ==
    IF x.kind = "Homogeneous"
    THEN LET o == HH_n_states(x.h, NoIndex, 0) IN
         IF o.err # "none" THEN Count(o.err, 0) ELSE Count("none", o.nums[1])
    ELSE IF ~T_is_indexable(x) THEN Count("RuntimeError", 0)
    ELSE LET l == T_n_states(x.left)
             r == T_n_states(x.right)
         IN  IF l.err # "none" THEN l
             ELSE IF r.err # "none" THEN r
             ELSE Count("none", l.val * r.val)

\* the operands: homogeneous spaces of two concrete types, of 1..MaxN+1
\* or BigN sites
\* the largest exponent of a power
MaxPow == 3

MulLocalStates ==
    {[none |-> TRUE, vals |-> <<>>]} \cup
    {[none |-> FALSE, vals |-> v] : v \in {<<-1, 1>>, <<-1, 0, 1>>}}

MulOperands ==
    {Homogeneous(ty, HomogeneousInit(ls, N, cfn)) :
        ty \in {"Spin", "Fock"}, ls \in MulLocalStates,
        N \in (1..(MaxN + 1)) \cup {BigN}, cfn \in {"None", "sum_zero"}}

\* what an operator expression gave: a value, or the exception it raised
Product(err, value) == [err |-> err, value |-> value]

RECURSIVE FoldLeft(_, _)
\* functools.reduce(lambda x, y: x * y, items) after its first item
FoldLeft(acc, items) ==
    IF items = <<>> THEN acc
    ELSE FoldLeft(Mul(acc, Head(items)), Tail(items))

RECURSIVE FoldRight(_)
FoldRight(items) ==
    IF Len(items) = 1 THEN Head(items)
    ELSE Mul(Head(items), FoldRight(Tail(items)))

\* a variant that folds from the right
DH_pow_right_fold(self, n) ==
    LET items == [i \in 1..n |-> self]
    IN  IF items = <<>> THEN Product("TypeError", NotImplemented)
        ELSE Product("none", FoldRight(items))

\* DiscreteHilbert.__pow__(self, n): reduce over [self for _ in range(n)];
\* reduce of an empty list without an initial value raises TypeError
DH_pow(self, n) ==
    LET items == [i \in 1..n |-> self]
    IN  IF items = <<>> THEN Product("TypeError", NotImplemented)
        ELSE Product("none", FoldLeft(Head(items), Tail(items)))

NoProduct == [done |-> FALSE, op |-> "none", n |-> 0, err |-> "none",
              value |-> NotImplemented, read |-> FALSE,
              n_states |-> Count("none", 0)]

MInit ==
    /\ fac \in [self : MulOperands,
                 other : MulOperands \cup {Continuous, NotAHilbert}]
    /\ prod = NoProduct

\* res = self * other
Multiply ==
    /\ ~prod.done
    /\ prod' = [NoProduct EXCEPT !.done = TRUE, !.op = "mul",
                                 !.value = Mul(fac.self, fac.other)]
    /\ UNCHANGED <<fac, notM>>

\* res = self ** n
Power ==
    /\ ~prod.done
    /\ \E n \in 0..MaxPow :
         LET o == DH_pow(fac.self, n)
         IN  prod' = [NoProduct EXCEPT !.done = TRUE, !.op = "pow", !.n = n,
                                       !.err = o.err, !.value = o.value]
    /\ UNCHANGED <<fac, notM>>

\* res.n_states
ProductNStates ==
    /\ prod.done
    /\ IsDiscreteHilbert(prod.value)
    /\ ~prod.read
    /\ prod' = [prod EXCEPT !.read = TRUE,
                            !.n_states = T_n_states(prod.value)]
    /\ UNCHANGED <<fac, notM>>

MNext ==
    \/ Multiply
    \/ Power
    \/ ProductNStates

MIdle ==
    /\ fac = [self |-> NotAHilbert, other |-> NotAHilbert]
    /\ prod = NoProduct

(***************************************************************************)
(* init_state on several cooperating workers (base.py:202-231): every      *)
(* worker calls init_state with its seed argument; nkjax.PRNGKey and       *)
(* nkjax.mpi_split, which are not part of the sources at hand, follow the  *)
(* docstring of init_state (base.py:209-214): the seeds the workers supply *)
(* are reduced by summing, n_nodes keys are generated from the reduced     *)
(* one, and every worker is initialised with the one of its rank.          *)
(***************************************************************************)
\* the launches of a run: the start and one restart
Launches == 1..2

\* the ranks of n_nodes workers
Ranks(n_nodes) == 0..(n_nodes - 1)

RECURSIVE SumOver(_, _)
SumOver(f, S) ==
    IF S = {} THEN 0
    ELSE LET r == CHOOSE x \in S : TRUE IN f[r] + SumOver(f, S \ {r})

\* nkjax.PRNGKey(seed): the seed of every worker (the one passed, or one
\* drawn from entropy when none is passed), summed over the workers
PRNGKey(seed, entropy) ==
    SumOver([r \in DOMAIN entropy |->
                IF seed.none THEN entropy[r] ELSE seed.val],
            DOMAIN entropy)

\* nkjax.mpi_split(key): the key of this worker's rank among the n_nodes
\* keys generated from the reduced one
mpi_split(key, m) == key * m.n_nodes + m.rank

\* a variant that hands the reduced key to _init_state as it is
W_init_state_no_split(m, pars, seed, entropy) ==
    PrimInitState(pars, PRNGKey(seed, entropy))

\* Sampler.init_state on the worker m.rank of m.n_nodes
W_init_state(m, pars, seed, entropy) ==
    PrimInitState(pars, mpi_split(PRNGKey(seed, entropy), m))

NoWorkers ==
    [n_nodes |-> 1, seed |-> NoSeed, pars |-> "theta1", launch |-> 1,
     entropy |-> [r \in Ranks(1) |-> 0],
     state |-> [l \in Launches |-> [r \in Ranks(1) |-> NoState]]]

\* n_nodes workers are started with one nominal seed, or with none
WInit ==
    \E n \in 1..MaxNodes, s \in {NoSeed} \cup {Some(v) : v \in Seeds},
       p \in Params :
        \E e \in [Ranks(n) -> Seeds] :
            wk = [NoWorkers EXCEPT
                    !.n_nodes = n, !.seed = s, !.pars = p, !.entropy = e,
                    !.state = [l \in Launches |->
                                 [r \in Ranks(n) |-> NoState]]]

\* sampler.init_state(machine, parameters, seed) returns on one worker
WorkerInitState ==
    \E r \in Ranks(wk.n_nodes) :
        /\ ~wk.state[wk.launch][r].some
        /\ wk' = [wk EXCEPT !.state[wk.launch][r] =
                      W_init_state([n_nodes |-> wk.n_nodes, rank |-> r],
                                   wk.pars, wk.seed, wk.entropy)]
        /\ UNCHANGED notW

\* every worker has its state; the run is started again with the same
\* seed argument, and the system's entropy is what it then is
Restart ==
    /\ wk.launch = 1
    /\ \A r \in Ranks(wk.n_nodes) : wk.state[1][r].some
    /\ \E e \in [Ranks(wk.n_nodes) -> Seeds] :
         wk' = [wk EXCEPT !.launch = 2, !.entropy = e]
    /\ UNCHANGED notW

WNext ==
    \/ WorkerInitState
    \/ Restart

WIdle == wk = NoWorkers

(***************************************************************************)
(* The specifications: the indexing operations of one space; is_indexable  *)
(* over shapes; the sampler; its batches and its generator; two runs;      *)
(* the construction of a sampler and its chain counts.                     *)
(***************************************************************************)
NIdle ==
    /\ mpi = [n_nodes |-> 1, rank |-> 0]
    /\ smp = NoSampler
    /\ rd = NoRead

GIdle ==
    /\ impl = [n_chains |-> 1, layout |-> "chains_first"]
    /\ cur = NoState
    /\ gen = NoGen
    /\ got = NoGot

HIdle == hs = HomogeneousInit([none |-> FALSE, vals |-> <<1>>], 1, "None")
         /\ hidx = NoIndex /\ builds = 0 /\ last = NoOp /\ prev = NoOp

DIdle == dims = [is_finite |-> TRUE, shape |-> <<>>] /\ answer = NoAnswer

Init == HInit /\ DIdle /\ SInit /\ GIdle /\ TInit /\ NIdle
    /\ MIdle
    /\ PInit
    /\ WIdle

Next == HNext

Spec == Init /\ [][Next]_vars

InitShape == HIdle /\ DInit /\ SInit /\ GIdle /\ TInit /\ NIdle
    /\ MIdle
    /\ PInit
    /\ WIdle

SpecShape == InitShape /\ [][DNext]_vars

InitSampler == HIdle /\ DIdle /\ SInit /\ GIdle /\ TInit /\ NIdle
    /\ MIdle
    /\ PInit
    /\ WIdle

SpecSampler == InitSampler /\ [][SNext]_vars

InitSamples == HIdle /\ DIdle /\ SInit /\ GInit /\ TInit /\ NIdle
    /\ MIdle
    /\ PInit
    /\ WIdle

SpecSamples == InitSamples /\ [][GNext]_vars

InitTwin == HIdle /\ DIdle /\ SInit /\ GInit /\ TInit /\ NIdle
    /\ MIdle
    /\ PInit
    /\ WIdle

SpecTwin == InitTwin /\ [][TNext]_vars

InitNew == HIdle /\ DIdle /\ SInit /\ GIdle /\ TInit /\ NInit
    /\ MIdle
    /\ PInit
    /\ WIdle

SpecNew == InitNew /\ [][NNext]_vars

\* a sampler has been constructed
InitPair ==
    /\ HIdle /\ DIdle /\ SInit /\ GIdle /\ TInit /\ PInit /\ MIdle
    /\ WIdle
    /\ mpi = [n_nodes |-> 1, rank |-> 0]
    /\ smp \in {SamplerInit(hilbert, [kind |-> "int", val |-> 2], dtype, None) :
                  hilbert \in HilbertArgs, dtype \in DTypeArgs}
    /\ smp.err = "none"
    /\ rd = NoRead

SpecPair == InitPair /\ [][PNext]_vars

InitMul == HIdle /\ DIdle /\ SInit /\ GIdle /\ TInit /\ NIdle /\ PInit /\ MInit
    /\ WIdle

InitWorkers == HIdle /\ DIdle /\ SInit /\ GIdle /\ TInit /\ NIdle /\ PInit
    /\ MIdle
    /\ WInit

SpecWorkers == InitWorkers /\ [][WNext]_vars

SpecMul == InitMul /\ [][MNext]_vars

(***************************************************************************)
(* Properties of the sampler.                                              *)
(***************************************************************************)
ChainCalls == {i \in 1..Len(calls) : calls[i].fn = "_sample_chain"}

CallNames == [i \in 1..Len(calls) |-> calls[i].fn]

\* C9 as stated: in every sequence of init_state/reset/sample calls,
\* _sample_chain is only ever applied to a state that has been reset since
\* it was initialised.
C9_OnlyResetStatesAdvance ==
    \A i \in ChainCalls : calls[i].sin.stage = "Ready"

\* C9 as amended: a state goes Initialized (init_state) -> Ready (reset) ->
\* Ready (sample); sample called without a state only ever advances a state
\* that has been reset since it was initialised; sample called with a state
\* advances that state as it is, reset or not (the method does not check:
\* resetting is left to the caller), and advancing never changes whether a
\* state has been reset.
C9_Lifecycle ==
    /\ api.name = "init_state" => api.ret.stage = "Initialized"
    /\ api.name = "reset" => api.ret.stage = "Ready"
    /\ \A i \in ChainCalls :
          /\ ~api.given => calls[i].sin.stage = "Ready"
          /\ api.given => calls[i].sin = api.arg
          /\ calls[i].sout.stage = calls[i].sin.stage

\* sample without a state has advanced a freshly reset state
C9_Witness ==
    /\ api.name = "sample"
    /\ ~api.given
    /\ api.len = 2
    /\ api.ret.stage = "Ready"
    /\ api.ret.pos = 2

\* C10: sample called without a state performs init_state, then _reset,
\* then _sample_chain, each once and in that order, and advances the state
\* the reset returned; sample called with a state performs neither
\* init_state nor reset and advances exactly the state it was given.
C10_TransparentReset ==
    api.name = "sample" =>
        IF api.given
        THEN /\ CallNames = <<"_sample_chain">>
             /\ calls[1].sin = api.arg
             /\ calls[1].len = api.len
             /\ api.ret = calls[1].sout
        ELSE /\ CallNames = <<"_init_state", "_reset", "_sample_chain">>
             /\ calls[2].sin = calls[1].sout
             /\ calls[3].sin = calls[2].sout
             /\ calls[3].len = api.len
             /\ api.ret = calls[3].sout

\* both ways of calling sample have happened: a state that sample created
\* and reset itself has been passed back to sample
C10_Witness ==
    /\ api.name = "sample"
    /\ api.given
    /\ api.arg.stage = "Ready"
    /\ api.arg.pos = 1
    /\ api.ret.pos = 3
    /\ Len(calls) = 1

\* C11: reset called without a state calls init_state with no seed, once,
\* and then applies _reset once to the state it made; reset called with a
\* state never calls init_state and applies _reset once to the state it was
\* given; either way it returns what _reset returned.
C11_ResetContract ==
    api.name = "reset" =>
        IF api.given
        THEN /\ CallNames = <<"_reset">>
             /\ calls[1].sin = api.arg
             /\ api.ret = calls[1].sout
        ELSE /\ CallNames = <<"_init_state", "_reset">>
             /\ calls[1].seed.none
             /\ calls[2].sin = calls[1].sout
             /\ api.ret = calls[2].sout

\* a state that has already advanced is reset again with other parameters
C11_Witness ==
    /\ api.name = "reset"
    /\ api.given
    /\ api.arg.stage = "Ready"
    /\ api.arg.pars = "theta1"
    /\ api.arg.pos = 2
    /\ api.ret.pars = "theta2"
    /\ CallNames = <<"_reset">>

(***************************************************************************)
(* Properties of the batches and of the generator.                         *)
(***************************************************************************)
\* the _sample_chain call of the last operation
ChainCall == got.calls[Len(got.calls)]

\* the configurations of all chains at step k of a _sample_chain call
StepSlice(call, k) ==
    [c \in 1..impl.n_chains |-> Configuration(c, call.pars, call.sin, k)]

\* C12 as stated: sample(chain_length=L) advances every chain by L steps and
\* returns, with the updated state, a batch whose axes are ordered
\* (chain_length, chains, sites); the batches samples(...) yields are the
\* per-step slices of that layout.
C12_LengthFirstBatches ==
    /\ got.op = "sample" =>
          /\ got.ret.pos = ChainCall.sin.pos + got.len
          /\ got.batch = [k \in 1..got.len |-> StepSlice(ChainCall, k)]
    /\ (got.op = "next" /\ ~got.stop) => got.batch = StepSlice(ChainCall, 1)

\* C12 as amended: sample(chain_length=L) advances every chain by L steps
\* and returns the batch of _sample_chain as it is, with the updated state;
\* samples(...) yields samples[:, 0, :] of each one-step batch: when the
\* axes of a batch are ordered (chains, chain_length, sites) these are the
\* per-step slices, all chains at one step, and sample's batch holds
\* n_chains rows of L configurations; when the axes are ordered
\* (chain_length, chains, sites) each yielded batch holds the configuration
\* of the first chain only.
C12_ChainsFirstBatches ==
    /\ got.op = "sample" =>
          /\ ChainCall.fn = "_sample_chain"
          /\ ChainCall.len = got.len
          /\ got.ret = ChainCall.sout
          /\ got.ret.pos = ChainCall.sin.pos + got.len
          /\ got.batch =
                PrimSampleChainBatch(impl, ChainCall.pars, ChainCall.sin, got.len)
          /\ impl.layout = "chains_first" =>
                /\ Len(got.batch) = impl.n_chains
                /\ \A c \in 1..impl.n_chains :
                      got.batch[c] =
                        [k \in 1..got.len |-> StepSlice(ChainCall, k)[c]]
    /\ (got.op = "next" /\ ~got.stop) =>
          IF impl.layout = "chains_first"
          THEN got.batch = StepSlice(ChainCall, 1)
          ELSE got.batch = <<StepSlice(ChainCall, 1)[1]>>

\* two chains, axes (chains, chain_length, sites): the generator has
\* yielded its second batch
C12_Witness ==
    /\ got.op = "next"
    /\ ~got.stop
    /\ impl = [n_chains |-> 2, layout |-> "chains_first"]
    /\ gen.len - gen.todo = 2
    /\ Len(got.batch) = 2

\* the _sample_chain calls among a sequence of primitive calls
ChainCallsOf(cs) == {i \in 1..Len(cs) : cs[i].fn = "_sample_chain"}

\* C13: the generator samples(chain_length=L) returns is single-pass.  Its
\* k-th advance, k <= L, yields a batch after exactly one _sample_chain
\* call, of chain_length 1, on the state the advance before returned (for
\* k = 1: the state passed in, or the one reset made), so each advance
\* consumes one chain step; every advance after the L-th yields nothing
\* and makes no _sample_chain call; the steps left never grow back.
C13_SinglePass ==
    [][(gen.live /\ got'.op = "next") =>
          IF gen.todo > 0 /\ ~gen.exhausted
          THEN /\ ~got'.stop
               /\ ChainCallsOf(got'.calls) = {Len(got'.calls)}
               /\ LET c == got'.calls[Len(got'.calls)] IN
                    /\ c.len = 1
                    /\ (gen.started \/ gen.given) =>
                          /\ c.sin = gen.state
                          /\ Len(got'.calls) = 1
                    /\ ~(gen.started \/ gen.given) =>
                          /\ Len(got'.calls) = 3
                          /\ got'.calls[2].fn = "_reset"
                          /\ c.sin = got'.calls[2].sout
                    /\ gen'.state = c.sout
                    /\ gen'.state.pos = c.sin.pos + 1
               /\ gen'.todo = gen.todo - 1
               /\ gen'.len - gen'.todo = (gen.len - gen.todo) + 1
               /\ ~gen'.exhausted
          ELSE /\ got'.stop
               /\ got'.batch = <<>>
               /\ ChainCallsOf(got'.calls) = {}
               /\ gen'.exhausted
               /\ gen'.todo = 0
               /\ gen.started => gen'.state = gen.state
      ]_vars

\* a generator of two batches, made without a state, has been advanced a
\* fourth time
C13_Witness ==
    /\ gen.live
    /\ gen.exhausted
    /\ ~gen.given
    /\ gen.len = 2
    /\ gen.state.pos = 2
    /\ got.op = "next"
    /\ got.stop
    /\ got.calls = <<>>

(***************************************************************************)
(* Properties of two runs.                                                 *)
(***************************************************************************)
\* C14 as stated: two runs that call init_state with the same explicit seed
\* and then make the same reset and sample calls with the same parameters
\* get identical batches and identical states at every step: no call reads
\* randomness other than the seed and the state's own generator.
C14_Deterministic ==
    tgot.op # "none" =>
        /\ twin[1] = twin[2]
        /\ tgot.batches[1] = tgot.batches[2]

\* C14 as amended: two runs that call init_state with the same explicit
\* seed and then make the same reset and sample calls with the same
\* parameters, each call being passed the state, get identical batches and
\* identical states at every step; a reset or sample call that is not
\* passed a state starts from a state whose key nkjax.PRNGKey(None) draws
\* anew, which is the only randomness read besides the seed and the
\* state's own generator.
C14_DeterministicGivenState ==
    /\ (tgot.op # "none" /\ tgot.same_calls) =>
          /\ twin[1] = twin[2]
          /\ tgot.batches[1] = tgot.batches[2]
    /\ (tgot.op # "none" /\ twin[1] # twin[2]) =>
          \A r \in Runs : [twin[r] EXCEPT !.key = 0] = [twin[1] EXCEPT !.key = 0]

\* both runs have sampled twice from the state of a seeded init_state
C14_Witness ==
    /\ tgot.op = "sample"
    /\ tgot.given
    /\ tgot.same_calls
    /\ tgot.len = 2
    /\ twin[1].pos = 3
    /\ twin[1].key = 1
    /\ twin[1].stage = "Ready"
    /\ Len(tgot.batches[1][1]) = 2

(***************************************************************************)
(* Properties of the construction of a sampler and of its chain counts.    *)
(***************************************************************************)
\* C16: constructing a Sampler with a machine_pow that is not an integer,
\* or that is an integer <= 0, fails at construction with TypeError or
\* ValueError, so no Sampler with such a machine_pow exists.
C16_MachinePowChecked ==
    /\ (smp.called /\ smp.args.hilbert.is_hilbert
          /\ (~IsIntegerDType(smp.args.machine_pow)
                \/ smp.args.machine_pow.val <= 0)) =>
          smp.err \in {"TypeError", "ValueError"}
    /\ (smp.called /\ smp.err = "none") =>
          /\ ~smp.machine_pow.none
          /\ smp.machine_pow.val > 0

\* what holds of machine_pow: one that is not an integer is refused with
\* ValueError before any field is assigned
MachinePowIntegerChecked ==
    (smp.called /\ smp.args.hilbert.is_hilbert
      /\ ~IsIntegerDType(smp.args.machine_pow)) =>
        /\ smp.err = "ValueError"
        /\ smp.assigned = {}

\* C17: constructing a Sampler with a hilbert that is not an
\* AbstractHilbert fails with TypeError, before machine_pow is examined and
\* before any field of the sampler is assigned.
C17_HilbertCheckedFirst ==
    (smp.called /\ ~smp.args.hilbert.is_hilbert) =>
        /\ smp.err = "TypeError"
        /\ smp.examined = <<"hilbert">>
        /\ smp.assigned = {}
        /\ smp.hilbert = "None" /\ smp.machine_pow.none /\ smp.dtype = "None"

\* neither argument is acceptable: the hilbert argument decides
C17_Witness ==
    /\ smp.called
    /\ ~smp.args.hilbert.is_hilbert
    /\ smp.args.machine_pow.kind = "float"
    /\ smp.err = "TypeError"

\* C18: reading n_chains_per_rank fails (RuntimeError, the spec's
\* ConsistencyError) when n_chains is not divisible by the number of
\* workers; when it is, the read returns n_chains / n_workers, so that
\* n_chains_per_rank * n_workers = n_chains; n_batches answers as
\* n_chains_per_rank does.
C18_ChainsPerRank ==
    (rd.name \in {"n_chains_per_rank", "n_batches"}) =>
        /\ IF \E q \in 0..MaxOf(S_n_chains(mpi, smp), 0) :
                  q * mpi.n_nodes = S_n_chains(mpi, smp)
           THEN /\ rd.err = "none"
                /\ rd.val * mpi.n_nodes = S_n_chains(mpi, smp)
           ELSE rd.err = "RuntimeError"

\* seven chains among three workers
C18_Witness ==
    /\ rd.name = "n_chains_per_rank"
    /\ rd.err = "RuntimeError"
    /\ mpi.n_nodes = 3
    /\ smp.n_chains = Some(7)

\* only n_chains was given to the last compute_n_chains call
OnlyNChains ==
    /\ rd.name = "compute_n_chains"
    /\ rd.args[1].none
    /\ ~rd.args[2].none

\* the smallest multiple of w that is >= c
RoundUp(c, w) ==
    CHOOSE v \in (-w)..(c + w) :
        /\ \E q \in (-1)..(c + w) : v = q * w
        /\ v >= c
        /\ v - c < w

\* C19 as stated: when only n_chains = c is given, compute_n_chains returns
\* ceil(c / W) * W, the smallest multiple of W that is >= c, and a warning
\* is issued (by rank 0, when W > 1) exactly when that result differs
\* from c.
C19_RoundsUp ==
    OnlyNChains =>
        /\ rd.err = "none"
        /\ rd.val = CeilDiv(rd.args[2].val, mpi.n_nodes) * mpi.n_nodes
        /\ rd.val = RoundUp(rd.args[2].val, mpi.n_nodes)
        /\ rd.warned <=>
              (mpi.rank = 0 /\ mpi.n_nodes > 1 /\ rd.val # rd.args[2].val)

\* C19 as amended: when only n_chains = c is given and c >= 1,
\* compute_n_chains returns ceil(c / W) * W, the smallest multiple of W
\* that is >= c; when c <= 0 it returns W, one chain per worker; a warning
\* is issued (by rank 0, when W > 1) exactly when the result differs
\* from c.
C19_RoundsUpPositive ==
    OnlyNChains =>
        /\ rd.err = "none"
        /\ rd.args[2].val >= 1 =>
              /\ rd.val = CeilDiv(rd.args[2].val, mpi.n_nodes) * mpi.n_nodes
              /\ rd.val = RoundUp(rd.args[2].val, mpi.n_nodes)
        /\ rd.args[2].val <= 0 => rd.val = mpi.n_nodes
        /\ rd.warned <=>
              (mpi.rank = 0 /\ mpi.n_nodes > 1 /\ rd.val # rd.args[2].val)

\* seven chains among three workers: nine, with a warning on rank 0
C19_Witness ==
    /\ OnlyNChains
    /\ rd.args[2].val = 7
    /\ mpi = [n_nodes |-> 3, rank |-> 0]
    /\ rd.val = 9
    /\ rd.warned

C20_ProductShape ==
    (prod.done /\ prod.op = "mul" /\ IsDiscreteHilbert(fac.other)) =>
        /\ IsDiscreteHilbert(prod.value)
        /\ T_shape(prod.value) = fac.self.h.shape \o fac.other.h.shape
        /\ Len(T_shape(prod.value)) = size(fac.self.h) + size(fac.other.h)
        /\ (/\ prod.read
            /\ ~constrained(fac.self.h) /\ ~constrained(fac.other.h)
            /\ T_is_indexable(prod.value)) =>
              /\ prod.n_states.err = "none"
              /\ prod.n_states.val =
                    HH_n_states(fac.self.h, NoIndex, 0).nums[1]
                    * HH_n_states(fac.other.h, NoIndex, 0).nums[1]

\* three sites of two local states times four sites of three: seven
\* sites, 8 * 81 states
C20_Witness ==
    /\ prod.done /\ prod.op = "mul" /\ prod.read
    /\ size(fac.self.h) = 3 /\ fac.self.h.local_size = 2
    /\ size(fac.other.h) = 4 /\ fac.other.h.local_size = 3
    /\ ~constrained(fac.self.h) /\ ~constrained(fac.other.h)
    /\ prod.value.kind = "TensorDiscreteHilbert"
    /\ Len(T_shape(prod.value)) = 7
    /\ prod.n_states = Count("none", 648)

\* the product of n copies of a space, nested to the left
RECURSIVE LeftProduct(_, _)
LeftProduct(space, n) ==
    IF n = 1 THEN space ELSE Mul(LeftProduct(space, n - 1), space)

\* C21: for every integer n >= 1, space ** n is the left-folded product
\* ((space * space) * ...) * space of n copies of the space and has
\* n * space.size sites; space ** 1 is the space itself.
C21_PowLeftFold ==
    (prod.done /\ prod.op = "pow" /\ prod.n >= 1) =>
        /\ prod.err = "none"
        /\ prod.value = LeftProduct(fac.self, prod.n)
        /\ prod.n = 1 => prod.value = fac.self
        /\ prod.n = 2 => prod.value = Mul(fac.self, fac.self)
        /\ prod.n >= 3 =>
              /\ prod.value.kind = "TensorDiscreteHilbert" =>
                    /\ prod.value.right = fac.self
                    /\ prod.value.left = LeftProduct(fac.self, prod.n - 1)
        /\ IsDiscreteHilbert(prod.value)
        /\ Len(T_shape(prod.value)) = prod.n * size(fac.self.h)

\* the cube of a constrained space of two sites: a product of a product
\* and the space, of six sites
C21_Witness ==
    /\ prod.done /\ prod.op = "pow" /\ prod.n = 3
    /\ size(fac.self.h) = 2 /\ constrained(fac.self.h)
    /\ prod.value.kind = "TensorDiscreteHilbert"
    /\ prod.value.left.kind = "TensorDiscreteHilbert"
    /\ prod.value.right = fac.self
    /\ Len(T_shape(prod.value)) = 6

(***************************************************************************)
(* Properties of the empty space and of the constructor.                   *)
(***************************************************************************)
\* an indexable constrained space none of whose configurations is accepted
EmptySpace(h) ==
    /\ constrained(h)
    /\ is_indexable(h)
    /\ \A row \in [1..size(h) -> {h.local_states[i] :
                                      i \in 1..Len(h.local_states)}] :
          ~ConstraintHolds(h.constraint_fn, row)

\* n_states is 0 and the enumerations are empty
EmptyEnumeration ==
    /\ last.op = "n_states" => last.err = "none" /\ last.nums = <<0>>
    /\ last.op \in {"all_states", "all_states_base", "states"} =>
          last.err = "none" /\ last.rows = <<>>

C23_LocalBasisValidated ==
    hs.is_finite =>
        /\ hs.local_states # <<>>
        /\ DistinctLocalStates(hs)
        /\ hs.local_size = Len(hs.local_states)

(***************************************************************************)
(* Properties of init_state on several workers.                            *)
(***************************************************************************)
\* the workers that hold a state, by launch and rank
Initialised ==
    {lr \in Launches \X Ranks(wk.n_nodes) : wk.state[lr[1]][lr[2]].some}

\* C24: when init_state runs on several workers with the same nominal
\* seed, the keys of different workers differ, and a restart with the same
\* nominal seed gives every worker the same key as before: the key depends
\* on the reduced seed and the rank only.
C24_WorkerKeys ==
    ~wk.seed.none =>
        \A a, b \in Initialised :
            /\ a[2] = b[2] => wk.state[a[1]][a[2]] = wk.state[b[1]][b[2]]
            /\ a[2] # b[2] =>
                  wk.state[a[1]][a[2]].key # wk.state[b[1]][b[2]].key

\* three workers started and restarted with seed 1, the entropy of the
\* system having changed in between
C24_Witness ==
    /\ wk.n_nodes = 3 /\ wk.seed = Some(1) /\ wk.launch = 2
    /\ \A l \in Launches : \A r \in Ranks(3) : wk.state[l][r].some
    /\ \E r \in Ranks(3) : wk.entropy[r] = 0

(***************************************************************************)
(* Properties of the dispatch of a product.                                *)
(***************************************************************************)
\* both operands have one concrete type and the combiner of that type
\* returns a space
Combined(a, b) == a.type = b.type /\ MulSameType(a, b) # NotImplemented

\* C26: a * b is what the same-type combiner returns when both operands
\* have the same concrete type and it does not decline; otherwise, also
\* when the combiner declined, TensorDiscreteHilbert(a, b) if b is a
\* DiscreteHilbert, else TensorGenericHilbert(a, b) if b is an
\* AbstractHilbert, else NotImplemented; a stays left and b right.
C26_DispatchOrder ==
    (prod.done /\ prod.op = "mul") =>
        /\ Combined(fac.self, fac.other) =>
              /\ prod.value = MulSameType(fac.self, fac.other)
              /\ prod.value.kind = "Homogeneous"
        /\ (~Combined(fac.self, fac.other)
            /\ IsDiscreteHilbert(fac.other)) =>
              /\ prod.value.kind = "TensorDiscreteHilbert"
              /\ prod.value.left = fac.self
              /\ prod.value.right = fac.other
        /\ (~IsDiscreteHilbert(fac.other)
            /\ IsAbstractHilbert(fac.other)) =>
              /\ prod.value.kind = "TensorGenericHilbert"
              /\ prod.value.left = fac.self
              /\ prod.value.right = fac.other
        /\ ~IsAbstractHilbert(fac.other) => prod.value = NotImplemented

\* two different spaces of one concrete type, one of them constrained: the
\* combiner declines and the generic product is returned
C26_Witness ==
    /\ prod.done /\ prod.op = "mul"
    /\ fac.self.type = "Spin" /\ fac.other.type = "Spin"
    /\ fac.self # fac.other
    /\ constrained(fac.other.h)
    /\ MulSameType(fac.self, fac.other) = NotImplemented
    /\ prod.value = TensorDiscreteHilbert(fac.self, fac.other)

EffectivePerRank(args) ==
    IF ~args[2].none THEN 1
    ELSE IF args[1].none THEN args[3] ELSE args[1].val

\* C28: compute_n_chains never returns a non-positive chain count: a call
\* raises ValueError when both n_chains and n_chains_per_rank are given and
\* TypeError when the effective n_chains_per_rank is <= 0, and otherwise
\* returns a positive multiple of the worker count; a non-positive n_chains
\* is not rejected but gives one chain per worker; reading
\* n_chains_per_rank of a sampler whose n_chains came from compute_n_chains
\* never fails.
C28_PositiveChainCount ==
    /\ rd.name = "compute_n_chains" =>
          /\ rd.err \in {"none", "ValueError", "TypeError"}
          /\ rd.err = "ValueError" <=> (~rd.args[1].none /\ ~rd.args[2].none)
          /\ rd.err = "TypeError" <=>
                /\ rd.args[1].none \/ rd.args[2].none
                /\ EffectivePerRank(rd.args) <= 0
          /\ rd.err = "none" =>
                /\ rd.val >= 1
                /\ rd.val % mpi.n_nodes = 0
          /\ (rd.args[1].none /\ ~rd.args[2].none /\ rd.args[2].val <= 0) =>
                /\ rd.err = "none"
                /\ rd.val = mpi.n_nodes
    /\ (smp.called /\ smp.origin # <<>>) =>
          /\ smp.err = "none"
          /\ smp.n_chains = Some(smp.origin[1].val)
          /\ rd.name \in {"n_chains_per_rank", "n_batches"} =>
                /\ rd.err = "none"
                /\ rd.val >= 1
                /\ rd.val * mpi.n_nodes = smp.origin[1].val

\* n_chains = -1 on three workers: three chains, one per worker, read back
\* from the sampler built with them
C28_Witness ==
    /\ mpi.n_nodes = 3
    /\ smp.called /\ smp.origin # <<>>
    /\ smp.origin[1].args[1].none
    /\ smp.origin[1].args[2] = Some(-1)
    /\ smp.n_chains = Some(3)
    /\ rd.name = "n_chains_per_rank"
    /\ rd.val = 1

(***************************************************************************)
(* Properties of the laziness of the generator.                            *)
(***************************************************************************)
\* the _init_state and _reset calls among a sequence of primitive calls
ResetCallsOf(cs) == {i \in 1..Len(cs) : cs[i].fn \in {"_init_state", "_reset"}}

\* C29: calling samples(...) does no work: no init_state, reset or
\* _sample_chain call is made until the generator is advanced for the first
\* time, and the generator holds the state as it was passed; the reset for
\* a missing state happens exactly once, at the first advance, and at no
\* later one; a generator that has not been advanced, or one made with
\* chain_length 0 and a given state, has made no chain step.
C29_LazySamples ==
    [][/\ got'.op = "samples" =>
             /\ got'.calls = <<>>
             /\ gen'.live /\ ~gen'.started
             /\ gen'.given = got'.given
             /\ gen'.state = got'.arg
             /\ gen'.todo = got'.len
             /\ cur' = cur
       /\ (gen'.live /\ ~gen'.started) =>
             /\ got'.op = "samples"
             /\ ChainCallsOf(got'.calls) = {}
       /\ (gen.live /\ got'.op = "next") =>
             /\ gen'.started
             /\ (~gen.started /\ ~gen.given) =>
                   /\ Len(got'.calls) >= 2
                   /\ got'.calls[1].fn = "_init_state"
                   /\ got'.calls[2].fn = "_reset"
                   /\ ResetCallsOf(got'.calls) = {1, 2}
             /\ (gen.started \/ gen.given) => ResetCallsOf(got'.calls) = {}
             /\ gen.len = 0 => ChainCallsOf(got'.calls) = {}
             /\ (gen.len = 0 /\ gen.given) => got'.calls = <<>>
      ]_vars

\* a generator made without a state and with chain_length 0 has been
\* advanced once: it reset a fresh state and made no chain step
C29_Witness ==
    /\ gen.live /\ gen.started /\ gen.exhausted
    /\ ~gen.given
    /\ gen.len = 0
    /\ got.op = "next"
    /\ got.stop
    /\ Len(got.calls) = 2
    /\ got.calls[2].fn = "_reset"
    /\ gen.state.stage = "Ready" /\ gen.state.pos = 0

(***************************************************************************)
(* Properties of the width check of states_to_numbers.                     *)
(***************************************************************************)
\* C30: states_to_numbers checks the width of the configurations first: if
\* the last dimension of the input is not the number of sites it raises
\* ValueError before the index engine is reached or built, on indexable
\* and non-indexable spaces alike, and the cache is left as it was;
\* otherwise, when it returns, one configuration gives a single number and
\* a batch gives one number per configuration.
C30_WidthCheckedFirst ==
    [][last'.op = "states_to_numbers" =>
          /\ last'.in_width # size(hs) =>
                /\ last'.err = "ValueError"
                /\ last'.eng = 0 /\ last'.prim = 0
                /\ hidx' = hidx
                /\ builds' = builds
          /\ (last'.in_width = size(hs) /\ last'.err = "none") =>
                /\ last'.prim = 1
                /\ Len(last'.nums) = Len(last'.in_rows)
                /\ last'.scalar => Len(last'.nums) = 1
          /\ (last'.in_width = size(hs) /\ ~is_indexable(hs)) =>
                last'.err = "RuntimeError"
      ]_vars

\* a configuration one site too long, given to an indexable space whose
\* engine has not been built
C30_Witness ==
    /\ last.op = "states_to_numbers"
    /\ last.scalar
    /\ last.in_width = size(hs) + 1
    /\ last.err = "ValueError"
    /\ hidx = NoIndex /\ builds = 0
    /\ is_indexable(hs)

====
